---------------------------- MODULE Spec2Model ----------------------------
(***************************************************************************)
(* WanderTogether: the compatibility-scoring and ranking engine.           *)
(*                                                                         *)
(* Profiles are Python dicts: here functions from the keys that are        *)
(* present to their values.  Text that the code lower-cases, strips or     *)
(* tokenizes (bio, gender, habits) is a sequence of one-character strings, *)
(* so that str.lower, str.strip, str.split and replace_punct are computed  *)
(* character by character.  Scores are Python floats in the code; here     *)
(* they are exact rationals [n, d] in lowest terms with d > 0.             *)
(***************************************************************************)
EXTENDS Integers, Sequences, FiniteSets, TLC

(***************************************************************************)
(* Exact rational arithmetic                                               *)
(***************************************************************************)
Abs(x) == IF x < 0 THEN -x ELSE x

RECURSIVE GCD(_, _)
GCD(a, b) == IF b = 0 THEN a ELSE GCD(b, a % b)

LCM(a, b) == (a \div GCD(a, b)) * b

\* n/d in lowest terms, d > 0.  A zero denominator is kept as n/0: the value
\* of a division Python would refuse (ZeroDivisionError).
R(n, d) ==
    IF d = 0 THEN [n |-> n, d |-> 0]
    ELSE LET g == GCD(Abs(n), Abs(d))
             s == IF d < 0 THEN -1 ELSE 1
         IN  [n |-> s * (n \div g), d |-> s * (d \div g)]

Zero == [n |-> 0, d |-> 1]
One == [n |-> 1, d |-> 1]

RAdd(a, b) ==
    LET l == LCM(a.d, b.d)
    IN  R(a.n * (l \div a.d) + b.n * (l \div b.d), l)

RMul(a, b) == R(a.n * b.n, a.d * b.d)

RDiv(a, b) ==
    IF b.n = 0 THEN [n |-> a.n, d |-> 0]
    ELSE RMul(a, R(b.d, b.n))

RLe(a, b) ==
    LET l == LCM(a.d, b.d)
    IN  a.n * (l \div a.d) <= b.n * (l \div b.d)

RLt(a, b) == ~RLe(b, a)

RMin(a, b) == IF RLe(a, b) THEN a ELSE b

RMax(a, b) == IF RLe(a, b) THEN b ELSE a

RECURSIVE RSum(_)
RSum(s) == IF s = <<>> THEN Zero ELSE RAdd(Head(s), RSum(Tail(s)))

(***************************************************************************)
(* Python dict and string primitives                                       *)
(***************************************************************************)
\* d.get(k, default)
Get(d, k, default) == IF k \in DOMAIN d THEN d[k] ELSE default

\* the dict d with d[k] = v
With(d, k, v) == (k :> v) @@ d

\* d[k] is None (a JSON null).  A dict lists the keys it holds with the value
\* None under "nulls", which is no key of the data; such a key is not in its
\* DOMAIN, so that d.get(k) is None for it as for an absent key.
IsNone(d, k) == k \in Get(d, "nulls", {})

UpperCase ==
    <<"A", "B", "C", "D", "E", "F", "G", "H", "I", "J", "K", "L", "M",
      "N", "O", "P", "Q", "R", "S", "T", "U", "V", "W", "X", "Y", "Z">>

LowerCase ==
    <<"a", "b", "c", "d", "e", "f", "g", "h", "i", "j", "k", "l", "m",
      "n", "o", "p", "q", "r", "s", "t", "u", "v", "w", "x", "y", "z">>

Digits == {"0", "1", "2", "3", "4", "5", "6", "7", "8", "9"}

Whitespace == {" ", "\t", "\n"}

UpperSet == {UpperCase[i] : i \in 1..26}

LowerSet == {LowerCase[i] : i \in 1..26}

LowerChar(c) ==
    IF c \in UpperSet
    THEN LowerCase[CHOOSE i \in 1..26 : UpperCase[i] = c]
    ELSE c

\* str.lower()
lower(s) == [i \in 1..Len(s) |-> LowerChar(s[i])]

KeptChar(c) ==
    \/ c \in LowerSet
    \/ c \in Digits
    \/ c \in Whitespace

\* re.sub(r"[^a-z0-9\s]", "", s)
replace_punct(s) == SelectSeq(s, KeptChar)

\* str.split(): the maximal runs of non-whitespace characters
RECURSIVE SplitFrom(_, _, _)
SplitFrom(s, i, cur) ==
    IF i > Len(s)
    THEN IF cur = <<>> THEN <<>> ELSE <<cur>>
    ELSE IF s[i] \in Whitespace
         THEN IF cur = <<>>
              THEN SplitFrom(s, i + 1, <<>>)
              ELSE <<cur>> \o SplitFrom(s, i + 1, <<>>)
         ELSE SplitFrom(s, i + 1, Append(cur, s[i]))

split(s) == SplitFrom(s, 1, <<>>)

\* set(list)
ToSet(s) == {s[i] : i \in DOMAIN s}

\* str.strip()
RECURSIVE LStrip(_)
LStrip(s) ==
    IF s # <<>> /\ Head(s) \in Whitespace THEN LStrip(Tail(s)) ELSE s

RECURSIVE RStrip(_)
RStrip(s) ==
    IF s # <<>> /\ s[Len(s)] \in Whitespace
    THEN RStrip(SubSeq(s, 1, Len(s) - 1))
    ELSE s

strip(s) == RStrip(LStrip(s))

SAFETY_KEYWORDS ==
    { <<"f", "e", "m", "a", "l", "e", "-", "o", "n", "l", "y">>,
      <<"v", "e", "r", "i", "f", "i", "e", "d">>,
      <<"l", "o", "w", "-", "k", "e", "y">>,
      <<"c", "a", "u", "t", "i", "o", "u", "s">>,
      <<"q", "u", "i", "e", "t">>,
      <<"c", "a", "l", "m">>,
      <<"s", "a", "f", "e">>,
      <<"s", "a", "f", "e", "t", "y">>,
      <<"t", "r", "u", "s", "t">>,
      <<"i", "d", "-", "v", "e", "r", "i", "f", "i", "e", "d">>,
      <<"b", "l", "o", "c", "k", "c", "h", "a", "i", "n">>,
      <<"r", "e", "s", "p", "e", "c", "t", "f", "u", "l">> }

OUTDOOR_KEYWORDS ==
    { <<"h", "i", "k", "e">>,
      <<"h", "i", "k", "i", "n", "g">>,
      <<"t", "r", "e", "k">>,
      <<"t", "r", "e", "k", "k", "i", "n", "g">>,
      <<"t", "r", "a", "i", "l">>,
      <<"c", "a", "m", "p">>,
      <<"c", "a", "m", "p", "i", "n", "g">>,
      <<"b", "a", "c", "k", "p", "a", "c", "k">>,
      <<"b", "a", "c", "k", "p", "a", "c", "k", "i", "n", "g">>,
      <<"m", "o", "u", "n", "t", "a", "i", "n">>,
      <<"n", "a", "t", "u", "r", "e">>,
      <<"o", "u", "t", "d", "o", "o", "r">>,
      <<"o", "u", "t", "d", "o", "o", "r", "s">>,
      <<"w", "i", "l", "d">>,
      <<"s", "u", "m", "m", "i", "t">> }


(***************************************************************************)
(* Attribute similarity library (hybrid_algorithm.py; the copies in        *)
(* recommendation_algorithms.py are the same text, interests_similarity    *)
(* excepted)                                                               *)
(***************************************************************************)
\* The value of a query's 'interests' key is [kind, elems]: a Python list or
\* a Python set holding the elements elems.  A candidate's is a JSON list,
\* read only through set(...), len and "in": here the set of its elements.
PySet(e) == [kind |-> "set", elems |-> e]

PyList(e) == [kind |-> "list", elems |-> e]

pace_similarity(user, profile) ==
    RAdd(One, R(-Abs(user["pace"] - Get(profile, "pace", 2)), 2))

budget_similarity(user, profile) ==
    RAdd(One, R(-Abs(user["budget"] - Get(profile, "budget", 2)), 2))

Max3(a, b, c) ==
    IF a >= b /\ a >= c THEN a ELSE IF b >= c THEN b ELSE c

jaccard_overlap(a, b) ==
    IF a = {} /\ b = {}
    THEN Zero
    ELSE R(Cardinality(a \cap b), Max3(1, Cardinality(a \cup b), 1))

\* the overlap over the union (Jaccard) in place of the larger set
interests_similarity_jaccard(user, profile) ==
    jaccard_overlap(Get(user, "interests", PyList({})).elems, Get(profile, "interests", {}))

\* the overlap over the size of the query's set alone
interests_similarity_of_query(user, profile) ==
    LET u == Get(user, "interests", PyList({})).elems
        p == Get(profile, "interests", {})
    IN  IF u = {} /\ p = {}
        THEN Zero
        ELSE R(Cardinality(u \cap p), Max3(Cardinality(u), 1, 1))

interests_similarity(user, profile) ==
    LET u == Get(user, "interests", PyList({})).elems
        p == Get(profile, "interests", {})
    IN  IF u = {} /\ p = {}
        THEN Zero
        ELSE R(Cardinality(u \cap p), Max3(Cardinality(u), Cardinality(p), 1))

\* recommendation_algorithms.interests_similarity keeps the query's value as
\* it is (no set(...)) and calls u.intersection(p) on it: a list has no such
\* method, so the call raises AttributeError unless both sides are empty.
interests_similarity_raises(user, profile) ==
    LET u == Get(user, "interests", PySet({}))
        p == Get(profile, "interests", {})
    IN  /\ ~(u.elems = {} /\ p = {})
        /\ u.kind = "list"

style_similarity(user, profile) ==
    IF Get(user, "style", "<None>") = Get(profile, "style", "<None>")
    THEN One
    ELSE Zero

sleep_similarity(user, profile) ==
    jaccard_overlap(Get(user, "sleep", {}), Get(profile, "sleep", {}))

Half == [n |-> 1, d |-> 2]

\* called with d.get(key): an absent key gives None, and (None or '') is ''
habit_match(user_val, profile_val) ==
    LET u == lower(strip(user_val))
        p == lower(strip(profile_val))
    IN  IF u = <<>> \/ p = <<>>
        THEN Half
        ELSE IF u = p THEN One ELSE Zero

\* blank against blank treated as habit_match treats it
categorical_similarity_neutral(user_val, profile_val) ==
    habit_match(user_val, profile_val)

categorical_similarity(user_val, profile_val) ==
    LET u == lower(strip(user_val))
        p == lower(strip(profile_val))
    IN  IF u = <<>> /\ p = <<>>
        THEN Zero
        ELSE IF u = <<>> \/ p = <<>>
             THEN Half
             ELSE IF u = p THEN One ELSE Zero

\* the lenient score with the age tiers of the strict one
demographics_score_strict_tiers(user, profile) ==
    LET gender == IF /\ "gender" \in DOMAIN user
                     /\ "gender" \in DOMAIN profile
                     /\ lower(user["gender"]) = lower(profile["gender"])
                  THEN One
                  ELSE Zero
        age == IF "age" \in DOMAIN user /\ "age" \in DOMAIN profile
               THEN LET diff == Abs(user["age"] - profile["age"])
                    IN  IF diff <= 3 THEN One
                        ELSE IF diff <= 7 THEN R(6, 10)
                        ELSE IF diff <= 12 THEN R(3, 10)
                        ELSE Zero
               ELSE Zero
    IN  RDiv(RMin(RAdd(gender, age), R(2, 1)), R(2, 1))

demographics_score(user, profile) ==
    LET gender == IF /\ "gender" \in DOMAIN user
                     /\ "gender" \in DOMAIN profile
                     /\ lower(user["gender"]) = lower(profile["gender"])
                  THEN One
                  ELSE Zero
        age == IF "age" \in DOMAIN user /\ "age" \in DOMAIN profile
               THEN LET diff == Abs(user["age"] - profile["age"])
                    IN  IF diff <= 5 THEN One
                        ELSE IF diff <= 10 THEN Half
                        ELSE Zero
               ELSE Zero
        score == RAdd(gender, age)
    IN  RDiv(RMin(score, R(2, 1)), R(2, 1))

\* the strict score with the two weights exchanged
demographics_strict_age_first(user, profile) ==
    LET gender_score == IF /\ "gender" \in DOMAIN user
                           /\ "gender" \in DOMAIN profile
                           /\ lower(user["gender"]) = lower(profile["gender"])
                        THEN One
                        ELSE Zero
        age_score == IF "age" \in DOMAIN user /\ "age" \in DOMAIN profile
                     THEN LET diff == Abs(user["age"] - profile["age"])
                          IN  IF diff <= 3 THEN One
                              ELSE IF diff <= 7 THEN R(6, 10)
                              ELSE IF diff <= 12 THEN R(3, 10)
                              ELSE Zero
                     ELSE Zero
    IN  RAdd(RMul(R(3, 10), gender_score), RMul(R(7, 10), age_score))

demographics_strict(user, profile) ==
    LET gender_score == IF /\ "gender" \in DOMAIN user
                           /\ "gender" \in DOMAIN profile
                           /\ lower(user["gender"]) = lower(profile["gender"])
                        THEN One
                        ELSE Zero
        age_score == IF "age" \in DOMAIN user /\ "age" \in DOMAIN profile
                     THEN LET diff == Abs(user["age"] - profile["age"])
                          IN  IF diff <= 3 THEN One
                              ELSE IF diff <= 7 THEN R(6, 10)
                              ELSE IF diff <= 12 THEN R(3, 10)
                              ELSE Zero
                     ELSE Zero
    IN  RAdd(RMul(R(7, 10), gender_score), RMul(R(3, 10), age_score))

safety_keyword_score(user, profile) ==
    LET text == lower(Get(user, "bio", <<>>) \o <<" ">> \o Get(profile, "bio", <<>>))
        tokens == ToSet(split(replace_punct(text)))
        hits == Cardinality(tokens \cap SAFETY_KEYWORDS)
    IN  RMin(One, R(hits, 3))

\* the overlap over the larger of the two token sets
semantic_bio_score_symmetric(user, profile) ==
    LET user_keywords == ToSet(split(replace_punct(lower(Get(user, "bio", <<>>)))))
        profile_keywords == ToSet(split(replace_punct(lower(Get(profile, "bio", <<>>)))))
        overlap == Cardinality(user_keywords \cap profile_keywords)
    IN  R(overlap, Max3(Cardinality(user_keywords), Cardinality(profile_keywords), 1))

semantic_bio_score(user, profile) ==
    LET user_keywords == ToSet(split(replace_punct(lower(Get(user, "bio", <<>>)))))
        profile_keywords == ToSet(split(replace_punct(lower(Get(profile, "bio", <<>>)))))
        overlap == Cardinality(user_keywords \cap profile_keywords)
    IN  R(overlap, IF Cardinality(user_keywords) > 1 THEN Cardinality(user_keywords) ELSE 1)

detect_outdoors_from_text(text) ==
    IF text = <<>>
    THEN FALSE
    ELSE ToSet(split(replace_punct(lower(text)))) \cap OUTDOOR_KEYWORDS # {}

\* trust is stored in hundredths: the stored float is trust / 100
trust_multiplier(profile) ==
    LET t == R(Get(profile, "trust", 50), 100)
    IN  RMax(Zero, RMin(One, t))


(***************************************************************************)
(* Weight configurations: dicts from component names to weights            *)
(***************************************************************************)
RECURSIVE SumValues(_, _)
SumValues(w, keys) ==
    IF keys = {}
    THEN Zero
    ELSE LET k == CHOOSE x \in keys : TRUE
         IN  RAdd(w[k], SumValues(w, keys \ {k}))

\* sum(w.values())
sum_values(w) == SumValues(w, DOMAIN w)

\* (x or 1.0): a float zero is falsy
or_one(x) == IF x.n = 0 /\ x.d # 0 THEN One ELSE x

\* min(k, len) elements from the front: seq[:k]
Take(seq, k) == SubSeq(seq, 1, IF Len(seq) < k THEN Len(seq) ELSE k)

\* sorted(triples, key=lambda x: x[1], reverse=True): Python's sort is stable,
\* also under reverse=True, so an element goes behind every element whose
\* key is greater than or equal to its own.
\* an unstable descending sort: an element goes in front of its equals
RECURSIVE InsertDescUnstable(_, _)
InsertDescUnstable(x, sorted) ==
    IF sorted = <<>>
    THEN <<x>>
    ELSE IF RLe(Head(sorted).sc, x.sc)
         THEN <<x>> \o sorted
         ELSE <<Head(sorted)>> \o InsertDescUnstable(x, Tail(sorted))

RECURSIVE InsertDesc(_, _)
InsertDesc(x, sorted) ==
    IF sorted = <<>>
    THEN <<x>>
    ELSE IF RLt(Head(sorted).sc, x.sc)
         THEN <<x>> \o sorted
         ELSE <<Head(sorted)>> \o InsertDesc(x, Tail(sorted))

RECURSIVE SortedFrom(_, _, _)
SortedFrom(seq, i, acc) ==
    IF i > Len(seq) THEN acc ELSE SortedFrom(seq, i + 1, InsertDesc(seq[i], acc))

sorted_desc(seq) == SortedFrom(seq, 1, <<>>)

(***************************************************************************)
(* hybrid_algorithm.safety_enhanced_empirical_hybrid                       *)
(***************************************************************************)
soft_trust(t) == RAdd(R(6, 10), RMul(R(4, 10), RMax(Zero, RMin(One, t))))

W_hybrid ==
    [demographics |-> R(35, 100), bio_safety |-> R(5, 100), sleep |-> R(3, 100),
     style |-> R(2, 100), smoking |-> R(3, 100), alcohol |-> R(3, 100),
     dietary |-> R(2, 100), cleanliness |-> R(2, 100),
     budget |-> R(25, 100), pace |-> R(20, 100), interests |-> R(10, 100)]

\* in hundredths, as trust is
TRUST_GATE == 70

HYBRID_TOP_K == 8

\* the eleven components the hybrid computes for one candidate
hybrid_components(user, p) ==
    [demographics |-> demographics_strict(user, p),
     bio_safety |-> safety_keyword_score(user, p),
     sleep |-> sleep_similarity(user, p),
     style |-> style_similarity(user, p),
     smoking |-> habit_match(Get(user, "smoking", <<>>), Get(p, "smoking", <<>>)),
     alcohol |-> habit_match(Get(user, "alcohol", <<>>), Get(p, "alcohol", <<>>)),
     dietary |-> categorical_similarity(Get(user, "dietary", <<>>), Get(p, "dietary", <<>>)),
     cleanliness |-> categorical_similarity(Get(user, "cleanliness", <<>>), Get(p, "cleanliness", <<>>)),
     budget |-> budget_similarity(user, p),
     pace |-> pace_similarity(user, p),
     interests |-> interests_similarity(user, p)]

\* the weighted sum of the components c
hybrid_weighted(c) ==
    RSum(<< RMul(Get(W_hybrid, "demographics", Zero), c.demographics),
            RMul(Get(W_hybrid, "bio_safety", Zero), c.bio_safety),
            RMul(Get(W_hybrid, "sleep", Zero), c.sleep),
            RMul(Get(W_hybrid, "style", Zero), c.style),
            RMul(Get(W_hybrid, "smoking", Zero), c.smoking),
            RMul(Get(W_hybrid, "alcohol", Zero), c.alcohol),
            RMul(Get(W_hybrid, "dietary", Zero), c.dietary),
            RMul(Get(W_hybrid, "cleanliness", Zero), c.cleanliness),
            RMul(Get(W_hybrid, "budget", Zero), c.budget),
            RMul(Get(W_hybrid, "pace", Zero), c.pace),
            RMul(Get(W_hybrid, "interests", Zero), c.interests) >>)

\* S = weighted / (sum(W_hybrid.values()) or 1.0); the weights parameter of
\* the function is not read
hybrid_raw(user, weights, p) ==
    RDiv(hybrid_weighted(hybrid_components(user, p)), or_one(sum_values(W_hybrid)))

\* a tuple that refers to the first dict of the pool whatever the candidate
hybrid_triple_of_first(i, S, Tn) == [p |-> 1, sc |-> RMul(S, soft_trust(Tn)), S |-> S]

\* sc = S * soft_trust(Tn), and the tuple appended
hybrid_triple(i, S, Tn) == [p |-> i, sc |-> RMul(S, soft_trust(Tn)), S |-> S]

\* the gate left out: low trust only lowers the score through soft_trust
hybrid_gate_skips_never(p) == FALSE

\* the trust gate of the loop: TRUE when the candidate is skipped
hybrid_gate_skips(p) == RLt(trust_multiplier(p), R(TRUST_GATE, 100))

\* the loop over the pool: alg_hybrid, a list of (p, sc, S), where p is the
\* position in the pool of the dict the tuple refers to
RECURSIVE HybridLoop(_, _, _, _)
HybridLoop(user, weights, profiles, i) ==
    IF i > Len(profiles)
    THEN <<>>
    ELSE IF hybrid_gate_skips(profiles[i])
         THEN HybridLoop(user, weights, profiles, i + 1)
         ELSE <<hybrid_triple(i, hybrid_raw(user, weights, profiles[i]),
                              trust_multiplier(profiles[i]))>>
                  \o HybridLoop(user, weights, profiles, i + 1)

\* the pool positions for which the loop computed the components: those of
\* the tuples it appended
Positions(alg) == {alg[j].p : j \in DOMAIN alg}

hybrid_scored(user, weights, profiles) ==
    Positions(HybridLoop(user, weights, profiles, 1))

\* the exception the loop body raises for the candidate p: min(1.0, None) in
\* trust_multiplier and, behind the gate, '' + ' ' + None, int - None and
\* set(None) are TypeErrors
hybrid_candidate_raises(user, p) ==
    \/ IsNone(p, "trust")
    \/ /\ ~hybrid_gate_skips(p)
       /\ \/ IsNone(p, "bio")
          \/ IsNone(p, "budget")
          \/ IsNone(p, "pace")
          \/ IsNone(p, "interests")

\* nothing catches the exception: the call raises when one candidate does
hybrid_raises(user, profiles) ==
    \E i \in DOMAIN profiles : hybrid_candidate_raises(user, profiles[i])

\* the cut without the sort
hybrid_ranked_unsorted(alg_hybrid) == Take(alg_hybrid, HYBRID_TOP_K)

hybrid_ranked(alg_hybrid) == Take(sorted_desc(alg_hybrid), HYBRID_TOP_K)

safety_enhanced_empirical_hybrid(user, weights, profiles) ==
    hybrid_ranked(HybridLoop(user, weights, profiles, 1))

\* hybrid_algorithm.compute_algorithms
compute_algorithms(user, weights, profiles) ==
    safety_enhanced_empirical_hybrid(user, weights, profiles)

RECOMMEND_TOP_K == 6

\* six candidates in the order of the pool: the cut without the ranking
compute_hybrid_recommendations_unranked(user, weights, profiles) ==
    Take(HybridLoop(user, weights, profiles, 1), RECOMMEND_TOP_K)

\* app.compute_hybrid_recommendations: hybrid_results.get(...)[:6]
compute_hybrid_recommendations(user, weights, profiles) ==
    Take(compute_algorithms(user, weights, profiles), RECOMMEND_TOP_K)


(***************************************************************************)
(* recommendation_algorithms: base_score and the four baseline algorithms  *)
(***************************************************************************)
\* the keys of w that base_score reads, with the component it computes for
\* each; bio depends on bio_mode
base_components(user, profile, bio_mode) ==
    [pace |-> pace_similarity(user, profile),
     budget |-> budget_similarity(user, profile),
     interests |-> interests_similarity(user, profile),
     style |-> style_similarity(user, profile),
     sleep |-> sleep_similarity(user, profile),
     smoking |-> habit_match(Get(user, "smoking", <<>>), Get(profile, "smoking", <<>>)),
     alcohol |-> habit_match(Get(user, "alcohol", <<>>), Get(profile, "alcohol", <<>>)),
     cleanliness |-> categorical_similarity(Get(user, "cleanliness", <<>>), Get(profile, "cleanliness", <<>>)),
     fitness |-> categorical_similarity(Get(user, "fitness", <<>>), Get(profile, "fitness", <<>>)),
     dietary |-> categorical_similarity(Get(user, "dietary", <<>>), Get(profile, "dietary", <<>>)),
     bio |-> CASE bio_mode = "semantic" -> semantic_bio_score(user, profile)
               [] bio_mode = "safety" -> safety_keyword_score(user, profile)
               [] bio_mode = "tie" -> RMul(R(3, 100), semantic_bio_score(user, profile))
               [] OTHER -> Zero,
     demographics |-> demographics_score(user, profile)]

\* a denominator that counts only the weights of the components computed
base_total_w_computed(w) ==
    or_one(SumValues(w, DOMAIN w \cap
        {"pace", "budget", "interests", "style", "sleep", "smoking", "alcohol",
         "cleanliness", "fitness", "dietary", "bio", "demographics"}))

\* a denominator without the fallback to 1.0
base_total_w_strict(w) == sum_values(w)

\* total_w = sum(w.values()) or 1.0
base_total_w(w) == or_one(sum_values(w))

base_weighted(c, w) ==
    RSum(<< RMul(Get(w, "pace", Zero), c.pace),
            RMul(Get(w, "budget", Zero), c.budget),
            RMul(Get(w, "interests", Zero), c.interests),
            RMul(Get(w, "style", Zero), c.style),
            RMul(Get(w, "sleep", Zero), c.sleep),
            RMul(Get(w, "smoking", Zero), c.smoking),
            RMul(Get(w, "alcohol", Zero), c.alcohol),
            RMul(Get(w, "cleanliness", Zero), c.cleanliness),
            RMul(Get(w, "fitness", Zero), c.fitness),
            RMul(Get(w, "dietary", Zero), c.dietary),
            RMul(Get(w, "bio", Zero), c.bio),
            RMul(Get(w, "demographics", Zero), c.demographics) >>)

base_score(user, profile, w, bio_mode) ==
    RDiv(base_weighted(base_components(user, profile, bio_mode), w), base_total_w(w))

\* Algorithm 1: W1, the survey weights normalized by their sum (or 1.0)
W1(weights) ==
    LET W1_raw == [pace |-> Get(weights, "pace", Zero),
                   budget |-> Get(weights, "budget", Zero),
                   interests |-> Get(weights, "interests", Zero),
                   style |-> Get(weights, "style", Zero),
                   sleep |-> Get(weights, "sleep", Zero),
                   demographics |-> RAdd(Get(weights, "gender", Zero), Get(weights, "age", Zero)),
                   smoking |-> Zero, alcohol |-> Zero, dietary |-> Zero,
                   cleanliness |-> Zero, fitness |-> Zero, bio |-> Zero]
        total == or_one(sum_values(W1_raw))
    IN  [k \in DOMAIN W1_raw |-> RDiv(W1_raw[k], total)]

W2 ==
    [pace |-> R(45, 100), budget |-> R(45, 100), interests |-> R(5, 100),
     style |-> R(5, 100), bio |-> Zero, demographics |-> Zero]

W3 ==
    [pace |-> R(3, 100), budget |-> R(3, 100), interests |-> R(5, 100),
     style |-> R(3, 100), sleep |-> R(10, 100), smoking |-> R(6, 100),
     alcohol |-> R(4, 100), dietary |-> R(4, 100), cleanliness |-> R(3, 100),
     fitness |-> R(3, 100), bio |-> R(10, 100), demographics |-> R(46, 100)]

W4 ==
    [pace |-> R(10, 100), budget |-> R(10, 100), interests |-> R(25, 100),
     style |-> R(10, 100), bio |-> R(40, 100), demographics |-> R(5, 100)]

\* the hard-multiply policy of Algorithms 1, 3 and 4: sc = S * Tn
hard_multiply(S, profile) == RMul(S, trust_multiplier(profile))

\* the tuple (p, sc, S) these algorithms append
hard_triple(i, S, profile) == [p |-> i, sc |-> hard_multiply(S, profile), S |-> S]

\* Algorithm 2: sc = S * 1.0
ignore_trust_triple(i, S) == [p |-> i, sc |-> RMul(S, One), S |-> S]

RECURSIVE Alg1Loop(_, _, _, _)
Alg1Loop(user, w, profiles, i) ==
    IF i > Len(profiles)
    THEN <<>>
    ELSE <<hard_triple(i, base_score(user, profiles[i], w, "tie"), profiles[i])>>
             \o Alg1Loop(user, w, profiles, i + 1)

\* the second loop with the trust multiplier of the other three
RECURSIVE Alg2Loop_multiplied(_, _, _)
Alg2Loop_multiplied(user, profiles, i) ==
    IF i > Len(profiles)
    THEN <<>>
    ELSE <<hard_triple(i, base_score(user, profiles[i], W2, "none"), profiles[i])>>
             \o Alg2Loop_multiplied(user, profiles, i + 1)

RECURSIVE Alg2Loop(_, _, _)
Alg2Loop(user, profiles, i) ==
    IF i > Len(profiles)
    THEN <<>>
    ELSE <<ignore_trust_triple(i, base_score(user, profiles[i], W2, "none"))>>
             \o Alg2Loop(user, profiles, i + 1)

alg3_raw(user, p) ==
    LET weighted == RSum(<<
            RMul(Get(W3, "pace", Zero), pace_similarity(user, p)),
            RMul(Get(W3, "budget", Zero), budget_similarity(user, p)),
            RMul(Get(W3, "interests", Zero), interests_similarity(user, p)),
            RMul(Get(W3, "style", Zero), style_similarity(user, p)),
            RMul(Get(W3, "sleep", Zero), sleep_similarity(user, p)),
            RMul(Get(W3, "smoking", Zero),
                 habit_match(Get(user, "smoking", <<>>), Get(p, "smoking", <<>>))),
            RMul(Get(W3, "alcohol", Zero),
                 habit_match(Get(user, "alcohol", <<>>), Get(p, "alcohol", <<>>))),
            RMul(Get(W3, "dietary", Zero),
                 categorical_similarity(Get(user, "dietary", <<>>), Get(p, "dietary", <<>>))),
            RMul(Get(W3, "cleanliness", Zero),
                 categorical_similarity(Get(user, "cleanliness", <<>>), Get(p, "cleanliness", <<>>))),
            RMul(Get(W3, "fitness", Zero),
                 categorical_similarity(Get(user, "fitness", <<>>), Get(p, "fitness", <<>>))),
            RMul(Get(W3, "bio", Zero), safety_keyword_score(user, p)),
            RMul(Get(W3, "demographics", Zero), demographics_strict(user, p)) >>)
    IN  RDiv(weighted, or_one(sum_values(W3)))

RECURSIVE Alg3Loop(_, _, _)
Alg3Loop(user, profiles, i) ==
    IF i > Len(profiles)
    THEN <<>>
    ELSE IF RLt(trust_multiplier(profiles[i]), R(TRUST_GATE, 100))
         THEN Alg3Loop(user, profiles, i + 1)
         ELSE <<hard_triple(i, alg3_raw(user, profiles[i]), profiles[i])>>
                  \o Alg3Loop(user, profiles, i + 1)

\* a boost that looks at the two bios only
alg4_interests_bios_only(user, p) ==
    LET user_outdoor == detect_outdoors_from_text(Get(user, "bio", <<>>))
        profile_outdoor == detect_outdoors_from_text(Get(p, "bio", <<>>))
        interests_c == interests_similarity(user, p)
    IN  IF user_outdoor /\ profile_outdoor
        THEN RMin(One, RAdd(interests_c, R(35, 100)))
        ELSE interests_c

\* the interests component of Algorithm 4, with the outdoors boost
alg4_interests(user, p) ==
    LET user_outdoor == detect_outdoors_from_text(Get(user, "bio", <<>>))
        profile_outdoor ==
            \/ detect_outdoors_from_text(Get(p, "bio", <<>>))
            \/ "Hiking & Trekking" \in Get(p, "interests", {})
        interests_c == interests_similarity(user, p)
    IN  IF user_outdoor /\ profile_outdoor
        THEN RMin(One, RAdd(interests_c, R(35, 100)))
        ELSE interests_c

alg4_raw(user, p) ==
    LET weighted == RSum(<<
            RMul(Get(W4, "pace", Zero), pace_similarity(user, p)),
            RMul(Get(W4, "budget", Zero), budget_similarity(user, p)),
            RMul(Get(W4, "interests", Zero), alg4_interests(user, p)),
            RMul(Get(W4, "style", Zero), style_similarity(user, p)),
            RMul(Get(W4, "bio", Zero), semantic_bio_score(user, p)),
            RMul(Get(W4, "demographics", Zero), demographics_score(user, p)) >>)
    IN  RDiv(weighted, or_one(sum_values(W4)))

RECURSIVE Alg4Loop(_, _, _)
Alg4Loop(user, profiles, i) ==
    IF i > Len(profiles)
    THEN <<>>
    ELSE <<hard_triple(i, alg4_raw(user, profiles[i]), profiles[i])>>
             \o Alg4Loop(user, profiles, i + 1)

\* the exception base_score raises, "ok" when it returns: int - None and
\* set(None) are TypeErrors, list.intersection and None.lower() are
\* AttributeErrors, '' + ' ' + None is a TypeError
base_score_exception(user, profile, bio_mode) ==
    IF IsNone(profile, "pace") \/ IsNone(profile, "budget") \/ IsNone(profile, "interests")
    THEN "TypeError"
    ELSE IF interests_similarity_raises(user, profile)
    THEN "AttributeError"
    ELSE IF IsNone(profile, "bio") /\ bio_mode \in {"semantic", "tie"}
    THEN "AttributeError"
    ELSE IF IsNone(profile, "bio") /\ bio_mode = "safety"
    THEN "TypeError"
    ELSE "ok"

\* the exception the body of the first loop (Algorithm 1) raises for p:
\* base_score, then trust_multiplier
alg1_exception(user, p) ==
    IF base_score_exception(user, p, "tie") # "ok"
    THEN base_score_exception(user, p, "tie")
    ELSE IF IsNone(p, "trust") THEN "TypeError" ELSE "ok"

\* recommendation_algorithms.compute_algorithms, imported by
\* compare_with_baseline as baseline_algorithms.  Whatever raises in a later
\* loop raises in the first, which sees every candidate: the call raises
\* what the first failing candidate of the first loop does.
baseline_exception(user, profiles) ==
    IF \A i \in DOMAIN profiles : alg1_exception(user, profiles[i]) = "ok"
    THEN "ok"
    ELSE alg1_exception(user,
             profiles[CHOOSE i \in DOMAIN profiles :
                          /\ alg1_exception(user, profiles[i]) # "ok"
                          /\ \A j \in 1..(i - 1) : alg1_exception(user, profiles[j]) = "ok"])

baseline_raises(user, profiles) == baseline_exception(user, profiles) # "ok"

baseline_algorithms(user, weights, profiles) ==
    ("Empirical" :> Take(sorted_desc(Alg1Loop(user, W1(weights), profiles, 1)), 1))
    @@ ("Logistics+Trust" :> Take(sorted_desc(Alg2Loop(user, profiles, 1)), 1))
    @@ ("Safety+Social" :> Take(sorted_desc(Alg3Loop(user, profiles, 1)), 1))
    @@ ("SemanticBio" :> Take(sorted_desc(Alg4Loop(user, profiles, 1)), 1))


(***************************************************************************)
(* app.parse_user_form.  A form is a dict from the names of the fields     *)
(* that were sent to their text; interests and sleep (getlist) are sets,   *)
(* style (a choice of the page) is kept as the string it is compared by.   *)
(***************************************************************************)
DigitSeq == <<"0", "1", "2", "3", "4", "5", "6", "7", "8", "9">>

DigitValue(c) == (CHOOSE i \in 1..10 : DigitSeq[i] = c) - 1

\* the text without a leading sign
Unsigned(t) == IF t # <<>> /\ Head(t) \in {"+", "-"} THEN Tail(t) ELSE t

\* int(text) returns: whitespace around, one sign, decimal digits (the
\* inputs hold no underscore and no digit outside 0-9)
IsIntText(s) ==
    /\ Unsigned(strip(s)) # <<>>
    /\ \A i \in DOMAIN Unsigned(strip(s)) : Unsigned(strip(s))[i] \in Digits

RECURSIVE DigitsValue(_, _)
DigitsValue(t, acc) ==
    IF t = <<>> THEN acc ELSE DigitsValue(Tail(t), 10 * acc + DigitValue(Head(t)))

\* int(text), for a text int() accepts
IntOf(s) ==
    IF Head(strip(s)) = "-"
    THEN -DigitsValue(Unsigned(strip(s)), 0)
    ELSE DigitsValue(Unsigned(strip(s)), 0)

relaxed_itinerary ==
    <<"r", "e", "l", "a", "x", "e", "d", "_", "i", "t", "i", "n", "e", "r", "a", "r", "y">>

spontaneous == <<"s", "p", "o", "n", "t", "a", "n", "e", "o", "u", "s">>

packed_itinerary ==
    <<"p", "a", "c", "k", "e", "d", "_", "i", "t", "i", "n", "e", "r", "a", "r", "y">>

\* form.get('pace_text') or form.get('pace'): <<>> stands for '' and for
\* None, which int() both refuses inside the try
form_pace_text(form) ==
    IF Get(form, "pace_text", <<>>) # <<>>
    THEN form["pace_text"]
    ELSE Get(form, "pace", <<>>)

\* the pace of the query: the three names, else int(pace_text), else 2
form_pace(pace_text) ==
    IF pace_text = relaxed_itinerary THEN 1
    ELSE IF pace_text = spontaneous THEN 2
    ELSE IF pace_text = packed_itinerary THEN 3
    ELSE IF IsIntText(pace_text) THEN IntOf(pace_text)
    ELSE 2

\* int(form.get(field, default)) outside any try: ValueError for a text
\* int() refuses
form_int_raises(form, field) == field \in DOMAIN form /\ ~IsIntText(form[field])

form_int(form, field, default) ==
    IF field \in DOMAIN form THEN IntOf(form[field]) ELSE default

parse_user_form_raises(form) ==
    form_int_raises(form, "age") \/ form_int_raises(form, "budget")

parse_user_form(form) ==
    [name |-> strip(Get(form, "name", <<>>)),
     age |-> form_int(form, "age", 25),
     gender |-> strip(Get(form, "gender", <<>>)),
     budget |-> form_int(form, "budget", 2),
     pace |-> form_pace(form_pace_text(form)),
     style |-> Get(form, "style", ""),
     interests |-> PyList(Get(form, "interests", {})),
     sleep |-> Get(form, "sleep", {}),
     bio |-> strip(Get(form, "bio", <<>>)),
     cleanliness |-> strip(Get(form, "cleanliness", <<>>)),
     dietary |-> strip(Get(form, "dietary", <<>>)),
     alcohol |-> strip(Get(form, "alcohol", <<>>)),
     smoking |-> strip(Get(form, "smoking", <<>>)),
     fitness |-> strip(Get(form, "fitness", <<>>))]


(***************************************************************************)
(* Inputs: queries, weight configurations and candidates                   *)
(***************************************************************************)
female == <<"f", "e", "m", "a", "l", "e">>
Female == <<"F", "e", "m", "a", "l", "e">>
male == <<"m", "a", "l", "e">>
Male == <<"M", "a", "l", "e">>
no == <<"n", "o">>
NoSpace == <<"N", "o", " ">>
yes == <<"y", "e", "s">>
vegan == <<"v", "e", "g", "a", "n">>
tidy == <<"T", "i", "d", "y">>
BioSafeQuiet == <<"S", "a", "f", "e", ",", " ", "q", "u", "i", "e", "t", " ", "h", "i", "k", "e", "r", ".">>
BioVerifiedCalm == <<"V", "e", "r", "i", "f", "i", "e", "d", " ", "a", "n", "d", " ", "C", "A", "L", "M", ";", " ", "l", "o", "v", "e", "s", " ", "h", "i", "k", "i", "n", "g">>
BioFemaleOnly == <<"f", "e", "m", "a", "l", "e", "-", "o", "n", "l", "y", " ", "t", "r", "i", "p", "s", ",", " ", "c", "a", "m", "p", "i", "n", "g">>

\* the query of the spec's scenario: only these keys, interests a set
ScenarioUser ==
    [pace |-> 2, budget |-> 2, interests |-> PySet({"Hiking"}),
     style |-> "backpacking", gender |-> female, age |-> 28, bio |-> <<>>]

\* a query as app.parse_user_form builds it: every key present, the text
\* fields stripped, interests a list, pace and budget whatever integer the
\* form carried
FormUser(pace, budget, interests, gender, bio) ==
    [age |-> 31, gender |-> strip(gender), budget |-> budget, pace |-> pace,
     style |-> "luxury", interests |-> PyList(interests), sleep |-> {"early_bird"},
     bio |-> strip(bio), cleanliness |-> strip(tidy), dietary |-> <<>>,
     alcohol |-> strip(NoSpace), smoking |-> strip(no), fitness |-> <<>>]

Users ==
    { ScenarioUser,
      [ScenarioUser EXCEPT !.pace = 1, !.gender = Male, !.bio = BioSafeQuiet],
      [ScenarioUser EXCEPT !.pace = 9, !.budget = 9, !.gender = male, !.age = 60],
      FormUser(3, 1, {"Hiking", "Museums & Art"}, Female, BioVerifiedCalm),
      FormUser(9, 9, {}, female, BioFemaleOnly) }

\* app.load_survey_weights
SurveyWeights ==
    [budget |-> R(15, 100), pace |-> R(12, 100), interests |-> R(18, 100),
     style |-> R(10, 100), sleep |-> R(8, 100), gender |-> R(12, 100),
     age |-> R(10, 100)]

\* the configuration of the spec's scenario
ScenarioWeights ==
    [pace |-> R(2, 10), budget |-> R(2, 10), interests |-> R(3, 10),
     style |-> R(3, 10)]

\* a configuration whose weights sum to zero
ZeroWeights ==
    [pace |-> Zero, budget |-> Zero, interests |-> Zero, style |-> Zero]

WeightConfigs == {SurveyWeights, ScenarioWeights, ZeroWeights, W_hybrid}

\* the candidate of the spec's scenario (its id is its position in the pool)
ScenarioCandidate ==
    [trust |-> 90, pace |-> 2, budget |-> 2, interests |-> {"Hiking"},
     style |-> "backpacking", gender |-> female, age |-> 27]

\* a candidate with every attribute, pace 4 as normalize_legacy_fields
\* writes it for 'flexible', and a trust stored on a scale above 1
FullCandidate ==
    [trust |-> 350, pace |-> 4, budget |-> 3, interests |-> {"Museums & Art", "Hiking & Trekking"},
     style |-> "luxury", gender |-> Male, age |-> 45, bio |-> BioVerifiedCalm,
     sleep |-> {"early_bird", "night_owl"}, smoking |-> yes, alcohol |-> no,
     dietary |-> vegan, cleanliness |-> tidy, fitness |-> <<>>]

\* a candidate with nothing but a negative trust and a bio
BareCandidate == [trust |-> -20, bio |-> BioSafeQuiet]

\* the candidate of the scenario with a bio
BioCandidate == With(ScenarioCandidate, "bio", BioSafeQuiet)

Candidates ==
    { ScenarioCandidate,
      BioCandidate,
      [ScenarioCandidate EXCEPT !.trust = 50],
      [ScenarioCandidate EXCEPT !.trust = 69, !.age = 20],
      [ScenarioCandidate EXCEPT !.trust = 70, !.pace = 3],
      FullCandidate,
      BareCandidate }

BioModes == {"none", "tie", "safety"}

(***************************************************************************)
(* The state machine: the pool is loaded at startup, then ranking calls    *)
(***************************************************************************)
MaxPool == 2

VARIABLES
    profiles,        \* SIMULATED_PROFILES, the candidate pool
    phase,           \* "startup", "idle", or the name of the call just made
    user,            \* the query profile of the last call
    weights,         \* the weight configuration of the last call
    outcome,         \* "none", "ok" or the exception the last call raised
    algorithms,      \* the dict the last compute_algorithms call returned
    recommendations, \* the list compute_hybrid_recommendations returned
    scored,          \* pool positions whose components the last hybrid call computed
    score,           \* the value the last base_score call returned
    call,            \* the other arguments of the last base_score call
    user_journey     \* the rows of the table user_journey of the database

vars ==
    <<profiles, phase, user, weights, outcome, algorithms, recommendations,
      scored, score, call, user_journey>>

HybridKey == "Safety-Enhanced Empirical"

NoCall == [i |-> 0, bio_mode |-> "none"]

NoDict == [k \in {} |-> <<>>]

Init ==
    /\ profiles = <<>>
    /\ phase = "startup"
    /\ user = ScenarioUser
    /\ weights = SurveyWeights
    /\ outcome = "none"
    /\ algorithms = NoDict
    /\ recommendations = <<>>
    /\ scored = {}
    /\ score = Zero
    /\ call = NoCall
    /\ user_journey = <<>>

\* app.py: json.load of the pool, one candidate after the other
LoadProfile(c, bound) ==
    /\ phase = "startup"
    /\ Len(profiles) < bound
    /\ profiles' = Append(profiles, With(c, "id", Len(profiles) + 1))
    /\ UNCHANGED <<phase, user, weights, outcome, algorithms, recommendations,
                   scored, score, call>>
    /\ UNCHANGED user_journey

\* hybrid_algorithm.compute_algorithms(user, weights, profiles)
HybridCall(u, w) ==
    /\ phase = "idle"
    /\ phase' = "hybrid"
    /\ user' = u
    /\ weights' = w
    /\ IF hybrid_raises(u, profiles)
       THEN /\ outcome' = "TypeError"
            /\ algorithms' = NoDict
            /\ scored' = {}
       ELSE /\ outcome' = "ok"
            /\ algorithms' = (HybridKey :> compute_algorithms(u, w, profiles))
            /\ scored' = hybrid_scored(u, w, profiles)
    /\ recommendations' = <<>>
    /\ score' = Zero
    /\ call' = NoCall
    /\ UNCHANGED profiles
    /\ UNCHANGED user_journey

\* app.compute_hybrid_recommendations(user, weights), as /recommend calls it
RecommendCall(u, w) ==
    /\ phase = "idle"
    /\ phase' = "recommend"
    /\ user' = u
    /\ weights' = w
    /\ IF hybrid_raises(u, profiles)
       THEN /\ outcome' = "TypeError"
            /\ recommendations' = <<>>
            /\ scored' = {}
       ELSE /\ outcome' = "ok"
            /\ recommendations' = compute_hybrid_recommendations(u, w, profiles)
            /\ scored' = hybrid_scored(u, w, profiles)
    /\ algorithms' = NoDict
    /\ score' = Zero
    /\ call' = NoCall
    /\ UNCHANGED profiles
    /\ UNCHANGED user_journey

\* recommendation_algorithms.compute_algorithms(user, weights, profiles)
BaselineCall(u, w) ==
    /\ phase = "idle"
    /\ phase' = "baseline"
    /\ user' = u
    /\ weights' = w
    /\ IF baseline_raises(u, profiles)
       THEN /\ outcome' = baseline_exception(u, profiles)
            /\ algorithms' = NoDict
       ELSE /\ outcome' = "ok"
            /\ algorithms' = baseline_algorithms(u, w, profiles)
    /\ recommendations' = <<>>
    /\ scored' = {}
    /\ score' = Zero
    /\ call' = NoCall
    /\ UNCHANGED profiles
    /\ UNCHANGED user_journey

\* recommendation_algorithms.base_score(user, profiles[i], w, bio_mode)
BaseScoreCall(u, w, i, bio_mode) ==
    /\ phase = "idle"
    /\ i \in DOMAIN profiles
    /\ phase' = "base_score"
    /\ user' = u
    /\ weights' = w
    /\ call' = [i |-> i, bio_mode |-> bio_mode]
    /\ IF base_score_exception(u, profiles[i], bio_mode) # "ok"
       THEN /\ outcome' = base_score_exception(u, profiles[i], bio_mode)
            /\ score' = Zero
       ELSE LET v == base_score(u, profiles[i], w, bio_mode)
            IN  IF v.d = 0
                THEN /\ outcome' = "ZeroDivisionError"
                     /\ score' = Zero
                ELSE /\ outcome' = "ok"
                     /\ score' = v
    /\ algorithms' = NoDict
    /\ recommendations' = <<>>
    /\ scored' = {}
    /\ UNCHANGED profiles
    /\ UNCHANGED user_journey

\* the pool is complete: the application starts serving requests
Serve ==
    /\ phase = "startup"
    /\ phase' = "idle"
    /\ UNCHANGED <<profiles, user, weights, outcome, algorithms, recommendations,
                   scored, score, call>>
    /\ UNCHANGED user_journey

\* the caller has its answer; the engine keeps nothing of the call
Return ==
    /\ phase \notin {"startup", "idle"}
    /\ phase' = "idle"
    /\ outcome' = "none"
    /\ algorithms' = NoDict
    /\ recommendations' = <<>>
    /\ scored' = {}
    /\ score' = Zero
    /\ user' = ScenarioUser
    /\ weights' = SurveyWeights
    /\ call' = NoCall
    /\ UNCHANGED profiles
    /\ UNCHANGED user_journey

Next ==
    \/ \E c \in Candidates : LoadProfile(c, MaxPool)
    \/ Serve
    \/ Return
    \/ \E u \in Users, w \in WeightConfigs : HybridCall(u, w)
    \/ \E u \in Users, w \in WeightConfigs : RecommendCall(u, w)
    \/ \E u \in Users, w \in WeightConfigs : BaselineCall(u, w)
    \/ \E u \in Users, w \in WeightConfigs, i \in 1..MaxPool, m \in BioModes :
           BaseScoreCall(u, w, i, m)

Spec == Init /\ [][Next]_vars


(***************************************************************************)
(* A second specification for the sort and the top-K cut: pools longer     *)
(* than the cut, of candidates that differ in what decides the order       *)
(***************************************************************************)
MaxRankPool == 9

\* the first MaxVaried positions of a pool hold any of the four candidates
\* below, the positions behind them hold copies of ScenarioCandidate (each
\* with its own id)
MaxVaried == 3

\* passes the gate; for ScenarioUser it scores below ScenarioCandidate, for
\* a query with a third style the two score the same
StyleCandidate == [ScenarioCandidate EXCEPT !.style = "luxury"]

GatedCandidate == [ScenarioCandidate EXCEPT !.trust = 50]

\* a trust of exactly 0.7, and a lower score than the others (pace 3)
AtGateCandidate == [ScenarioCandidate EXCEPT !.trust = 70, !.pace = 3]

RankCandidates(pos) ==
    IF pos <= MaxVaried
    THEN {ScenarioCandidate, StyleCandidate, GatedCandidate, AtGateCandidate}
    ELSE {ScenarioCandidate}

RankUsers == {ScenarioUser, [ScenarioUser EXCEPT !.style = "hostel"]}

NextRank ==
    \/ \E c \in RankCandidates(Len(profiles) + 1) : LoadProfile(c, MaxRankPool)
    \/ Serve
    \/ Return
    \/ \E u \in RankUsers : HybridCall(u, SurveyWeights)
    \/ \E u \in RankUsers : RecommendCall(u, SurveyWeights)
    \/ \E u \in RankUsers : BaselineCall(u, SurveyWeights)

SpecRank == Init /\ [][NextRank]_vars


(***************************************************************************)
(* A third specification for sparse data: pools of candidates that lack    *)
(* one attribute, the key absent or its value null                         *)
(***************************************************************************)
MaxSparsePool == 2

\* the first MaxSparseVaried positions of a pool hold any sparse candidate,
\* the positions behind them hold CompleteCandidate
MaxSparseVaried == 1

\* the attributes the ranking reads of a candidate
ExpectedAttributes ==
    {"pace", "budget", "interests", "style", "sleep", "smoking", "alcohol",
     "dietary", "cleanliness", "gender", "age", "bio", "trust"}

\* a candidate with every expected attribute, none at the value the code
\* takes for a missing one
CompleteCandidate ==
    [trust |-> 90, pace |-> 3, budget |-> 1, interests |-> {"Hiking"},
     style |-> "luxury", gender |-> Female, age |-> 30, bio |-> BioVerifiedCalm,
     sleep |-> {"early_bird"}, smoking |-> no, alcohol |-> no,
     dietary |-> vegan, cleanliness |-> tidy]

\* the dict d without the key k
Without(d, k) == [x \in DOMAIN d \ {k} |-> d[x]]

\* the dict d with d[k] = None
WithNone(d, k) == With(Without(d, k), "nulls", {k})

SparseCandidates(pos) ==
    IF pos <= MaxSparseVaried
    THEN {CompleteCandidate}
             \cup {Without(CompleteCandidate, k) : k \in ExpectedAttributes}
             \cup {WithNone(CompleteCandidate, k) : k \in ExpectedAttributes}
    ELSE {CompleteCandidate}

\* a query of the form with every attribute filled in
SparseUser == FormUser(2, 2, {"Hiking"}, female, BioSafeQuiet)

NextSparse ==
    \/ \E c \in SparseCandidates(Len(profiles) + 1) : LoadProfile(c, MaxSparsePool)
    \/ Serve
    \/ Return
    \/ HybridCall(SparseUser, SurveyWeights)
    \/ RecommendCall(SparseUser, SurveyWeights)

SpecSparse == Init /\ [][NextSparse]_vars


(***************************************************************************)
(* Properties                                                              *)
(***************************************************************************)
\* the list the last hybrid ranking call returned
HybridResult ==
    IF phase = "hybrid" /\ outcome = "ok" THEN algorithms[HybridKey]
    ELSE IF phase = "recommend" THEN recommendations
    ELSE <<>>

\* the stored trust (hundredths) clamped to [0, 1] is below 0.7
ClampedTrustBelowGate(p) ==
    LET t == Get(p, "trust", 50)
        clamped == IF t < 0 THEN 0 ELSE IF t > 100 THEN 100 ELSE t
    IN  clamped < 70

\* the number of candidates of the pool that pass the gate
NumPassing ==
    Cardinality({i \in DOMAIN profiles : ~ClampedTrustBelowGate(profiles[i])})

\* C1: after a call of the reference ranking (trust gate, then soft floor),
\* no candidate whose clamped trust is below 0.7 is in the returned list,
\* and none is among the candidates whose components were computed.
C1_GateExclusive ==
    phase \in {"hybrid", "recommend"} =>
        /\ \A j \in DOMAIN HybridResult :
               ~ClampedTrustBelowGate(profiles[HybridResult[j].p])
        /\ \A i \in scored : ~ClampedTrustBelowGate(profiles[i])

\* C1's case: the pool holds a candidate below the gate that matches the
\* query in every attribute, beside a candidate that is returned
C1_Witness ==
    /\ phase = "hybrid"
    /\ user = ScenarioUser
    /\ \E i \in DOMAIN profiles : profiles[i] = With(GatedCandidate, "id", i)
    /\ Len(HybridResult) >= 1

\* C2: the list a ranking call returns is sorted in non-increasing order of
\* finalScore, holds at most top-K triples (8 from the hybrid, 6 from
\* compute_hybrid_recommendations) and at most as many as there are
\* candidates passing the trust gate.
C2_SortedTopK ==
    /\ \A j \in DOMAIN HybridResult :
           j + 1 \in DOMAIN HybridResult =>
               RLe(HybridResult[j + 1].sc, HybridResult[j].sc)
    /\ phase = "hybrid" => Len(HybridResult) <= 8
    /\ phase = "recommend" => Len(HybridResult) <= 6
    /\ Len(HybridResult) <= NumPassing

\* C2's case: more candidates pass the gate than the cut keeps, and the
\* returned list has a strict descent
C2_Witness ==
    /\ phase = "hybrid"
    /\ NumPassing > 8
    /\ Len(HybridResult) = 8
    /\ \E j \in 1..7 : RLt(HybridResult[j + 1].sc, HybridResult[j].sc)

\* every triple of kept is, among the triples of all with its finalScore,
\* the one of the least pool position
FirstOfEquals(kept, all) ==
    \A j \in DOMAIN kept : \A k \in DOMAIN all :
        all[k].sc = kept[j].sc => kept[j].p <= all[k].p

\* C3: two returned candidates with exactly equal finalScore are in the
\* order they have in the pool; and the one triple 'Empirical' keeps is, of
\* the candidates with its finalScore, the first of the pool.
C3_StableTies ==
    /\ \A j, k \in DOMAIN HybridResult :
           (j < k /\ HybridResult[j].sc = HybridResult[k].sc) =>
               HybridResult[j].p < HybridResult[k].p
    /\ (phase = "baseline" /\ outcome = "ok") =>
           FirstOfEquals(algorithms["Empirical"], Alg1Loop(user, W1(weights), profiles, 1))

\* C3's case: two candidates tie, and the sort moved a candidate
\* in front of one that precedes it in the pool
C3_Witness ==
    /\ phase = "hybrid"
    /\ \E j, k \in DOMAIN HybridResult :
           /\ j < k
           /\ HybridResult[j].sc = HybridResult[k].sc
    /\ \E j \in DOMAIN HybridResult :
           /\ j + 1 \in DOMAIN HybridResult
           /\ HybridResult[j].p > HybridResult[j + 1].p

\* clamp(candidate.trust, 0, 1), the stored trust being in hundredths
NormalizedTrust(p) ==
    LET t == Get(p, "trust", 50)
    IN  R(IF t < 0 THEN 0 ELSE IF t > 100 THEN 100 ELSE t, 100)

\* the soft-floor relations between the rawScore and the finalScore of a
\* triple t whose candidate has normalized trust T
SoftFloorTriple(t, T) ==
    /\ RLe(Zero, t.S) /\ RLe(t.S, One)
    /\ t.sc = RMul(t.S, RAdd(R(6, 10), RMul(R(4, 10), T)))
    /\ RLe(RMul(R(6, 10), t.S), t.sc) /\ RLe(t.sc, t.S)

\* C5: under the gate + soft-floor policy every returned triple has
\* 0 <= rawScore <= 1, finalScore = rawScore * (0.6 + 0.4 * normalizedTrust)
\* and 0.6 * rawScore <= finalScore <= rawScore, whatever query the form
\* parser produced and whatever candidate the pool holds.
C5_SoftFloorBounds ==
    \A j \in DOMAIN HybridResult :
        SoftFloorTriple(HybridResult[j], NormalizedTrust(profiles[HybridResult[j].p]))

\* the hard-multiply relations between the rawScore and the finalScore of a
\* triple t whose candidate has normalized trust T
HardMultiplyTriple(t, T) ==
    /\ RLe(Zero, t.S) /\ RLe(t.S, One)
    /\ t.sc = RMul(t.S, T)
    /\ RLe(Zero, t.sc) /\ RLe(t.sc, t.S)

AllHardMultiply(alg) ==
    \A j \in DOMAIN alg : HardMultiplyTriple(alg[j], NormalizedTrust(profiles[alg[j].p]))

\* C6: every candidate that 'Empirical', 'Safety+Social' or 'SemanticBio'
\* scores has 0 <= rawScore <= 1, finalScore = rawScore * clamp(trust, 0, 1)
\* and 0 <= finalScore <= rawScore, also for a stored trust above 1 or
\* below 0.
C6_HardMultiplyBounds ==
    (phase = "baseline" /\ outcome = "ok") =>
        /\ AllHardMultiply(Alg1Loop(user, W1(weights), profiles, 1))
        /\ AllHardMultiply(Alg3Loop(user, profiles, 1))
        /\ AllHardMultiply(Alg4Loop(user, profiles, 1))

\* the weights of the configuration of the last call sum to zero
ZeroSum == sum_values(weights) = Zero

RECURSIVE WeightedOver(_, _, _)
WeightedOver(w, c, keys) ==
    IF keys = {}
    THEN Zero
    ELSE LET k == CHOOSE x \in keys : TRUE
         IN  RAdd(RMul(w[k], c[k]), WeightedOver(w, c, keys \ {k}))

\* the sum of all the values of w
RECURSIVE TotalOver(_, _)
TotalOver(w, keys) ==
    IF keys = {}
    THEN Zero
    ELSE LET k == CHOOSE x \in keys : TRUE
         IN  RAdd(w[k], TotalOver(w, keys \ {k}))

\* the weighted sum over the keys of w that c has a component for, divided
\* by the sum of all the values of w
AggregateOf(w, c) ==
    RDiv(WeightedOver(w, c, DOMAIN w \cap DOMAIN c), TotalOver(w, DOMAIN w))

\* C8: for weights of positive sum base_score returns the sum of
\* w[k] * component_k over the computed components k, divided by the sum of
\* all the values of w: a key without a component adds nothing to the
\* numerator and its weight to the denominator.
C8_UnknownKeysDivide ==
    (phase = "base_score" /\ outcome = "ok" /\ RLt(Zero, TotalOver(weights, DOMAIN weights))) =>
        score = AggregateOf(weights,
                            base_components(user, profiles[call.i], call.bio_mode))

\* C8's case: base_score has returned a score above 0 for weights with keys
\* (gender, age) that no component is computed for
C8_Witness ==
    /\ phase = "base_score"
    /\ outcome = "ok"
    /\ weights = SurveyWeights
    /\ RLt(Zero, score)

\* C9: the rawScore of every triple the hybrid compute_algorithms returns is
\* the weighted aggregate of the candidate's components under the weights
\* the caller passed.
C9_PassedWeightsApplied ==
    (phase = "hybrid" /\ RLt(Zero, TotalOver(weights, DOMAIN weights))) =>
        \A j \in DOMAIN HybridResult :
            HybridResult[j].S =
                AggregateOf(weights, hybrid_components(user, profiles[HybridResult[j].p]))

\* C10: for the query, the single candidate and the weights of the spec's
\* scenario the ranking returns exactly one triple, with rawScore 1.0 and
\* finalScore 0.96.
C10_Scenario ==
    ( /\ phase = "hybrid"
      /\ user = ScenarioUser
      /\ weights = ScenarioWeights
      /\ profiles = <<With(ScenarioCandidate, "id", 1)>> ) =>
        algorithms[HybridKey] = <<[p |-> 1, sc |-> R(96, 100), S |-> One]>>

(***************************************************************************)
(* scripts/normalize_legacy_fields.py: the pace_text of a legacy profile   *)
(* becomes its numeric pace                                                *)
(***************************************************************************)
flexible == <<"f", "l", "e", "x", "i", "b", "l", "e">>

PACE_MAP ==
    (relaxed_itinerary :> 1) @@ (packed_itinerary :> 2) @@ (spontaneous :> 3)
        @@ (flexible :> 4)

\* the body of the loop of main for the profile p
normalize_legacy_fields(p) ==
    IF "pace_text" \in DOMAIN p
    THEN IF p["pace_text"] \in DOMAIN PACE_MAP
         THEN Without(With(p, "pace", PACE_MAP[p["pace_text"]]), "pace_text")
         ELSE Without(p, "pace_text")
    ELSE p

\* a profile of the pool before the script ran: no pace, the label txt
LegacyCandidate(txt) == With(Without(CompleteCandidate, "pace"), "pace_text", txt)

LegacyCandidates ==
    {LegacyCandidate(txt) :
        txt \in {relaxed_itinerary, packed_itinerary, spontaneous, flexible,
                 <<"f", "a", "s", "t">>}}

\* app.py loads a pool file that the script has rewritten
LoadLegacyProfile(c, bound) ==
    /\ phase = "startup"
    /\ Len(profiles) < bound
    /\ profiles' = Append(profiles, With(normalize_legacy_fields(c), "id", Len(profiles) + 1))
    /\ UNCHANGED <<phase, user, weights, outcome, algorithms, recommendations,
                   scored, score, call>>
    /\ UNCHANGED user_journey

(***************************************************************************)
(* A fourth specification for the /recommend route: requests with forms    *)
(* whose fields are missing, named, numeric or malformed                   *)
(***************************************************************************)
MaxFormPool == 2

\* a form with every field filled in as the page sends it
FullForm ==
    [name |-> <<"A", "n", "n", " ">>, age |-> <<"3", "1">>, gender |-> Female,
     budget |-> <<"2">>, pace_text |-> relaxed_itinerary, style |-> "luxury",
     interests |-> {"Hiking"}, sleep |-> {"early_bird"}, bio |-> BioSafeQuiet,
     cleanliness |-> tidy, dietary |-> vegan, alcohol |-> NoSpace,
     smoking |-> no, fitness |-> <<>>]

Forms ==
    { FullForm,
      [FullForm EXCEPT !.pace_text = spontaneous],
      [FullForm EXCEPT !.pace_text = packed_itinerary],
      [FullForm EXCEPT !.pace_text = <<"f", "a", "s", "t">>],
      [FullForm EXCEPT !.pace_text = <<" ", "9", " ">>],
      With(Without(FullForm, "pace_text"), "pace", <<"3">>),
      With([FullForm EXCEPT !.pace_text = <<>>], "pace", <<"-", "1">>),
      Without(FullForm, "pace_text"),
      Without(FullForm, "budget"),
      [FullForm EXCEPT !.budget = <<"9">>],
      [FullForm EXCEPT !.budget = <<"l", "o", "w">>],
      [FullForm EXCEPT !.budget = <<>>],
      [FullForm EXCEPT !.age = <<"3", "1", ".", "5">>],
      Without(Without(Without(FullForm, "age"), "bio"), "interests") }

\* the value of a column no statement has written yet
NULL == -1

\* d[k] raises KeyError
Missing(d, k) == k \notin DOMAIN d /\ ~IsNone(d, k)

\* app.log_form_submission's INSERT INTO user_journey: the new row holds the
\* session and NULL in the columns of the later steps (of the columns only
\* those of the steps' time stamps and counts are followed; a time stamp is
\* TRUE once it is set)
journey_row(session_id) ==
    [session_id |-> session_id,
     recommendations_generated_at |-> FALSE, total_suggested_count |-> NULL,
     selections_made_at |-> FALSE, total_selected_count |-> NULL]

\* app.log_form_submission(user, session_id) on the table: None is returned
\* and no row is written without a connection, else the row is inserted
log_form_submission(table, session_id, db) ==
    IF db THEN Append(table, journey_row(session_id)) ELSE table

\* the journey id log_form_submission returns (0 for None)
journey_id(table, db) == IF db THEN Len(table) + 1 ELSE 0

\* the statements of log_recommendations and log_selections in the try block
\* raise: a listed candidate without 'id', 'name', 'age' or 'gender'
\* (KeyError), a None in the sum of the trusts (TypeError) or the division
\* by len() of an empty list (ZeroDivisionError)
log_raises(pool, triples) ==
    \/ \E j \in DOMAIN triples :
           \/ \E k \in {"id", "name", "age", "gender"} : Missing(pool[triples[j].p], k)
           \/ IsNone(pool[triples[j].p], "trust")
    \/ Len(triples) = 0

\* app.log_recommendations(session_id, recommendations, ms) on the table:
\* every exception is caught and rolled back, else the UPDATE writes every
\* row of the session
log_recommendations(table, pool, session_id, recs, db) ==
    IF ~db \/ log_raises(pool, recs)
    THEN table
    ELSE [j \in DOMAIN table |->
              IF table[j].session_id = session_id
              THEN [table[j] EXCEPT !.recommendations_generated_at = TRUE,
                                    !.total_suggested_count = Len(recs)]
              ELSE table[j]]

\* app.log_selections(session_id, selected_profiles) on the table
log_selections(table, pool, session_id, selected, db) ==
    IF ~db \/ log_raises(pool, selected)
    THEN table
    ELSE [j \in DOMAIN table |->
              IF table[j].session_id = session_id
              THEN [table[j] EXCEPT !.selections_made_at = TRUE,
                                    !.total_selected_count = Len(selected)]
              ELSE table[j]]

\* the rows a run follows at most
MaxJourneys == 2

\* app.recommend: load_survey_weights, parse_user_form, log_form_submission,
\* compute_hybrid_recommendations, log_recommendations and the rendering of
\* the recommendations; an exception of parse_user_form or of the ranking
\* ends the request.  db: the database is reachable during the request.
RecommendRequest(form, session_id, db) ==
    /\ phase = "idle"
    /\ db => Len(user_journey) < MaxJourneys
    /\ phase' = "request"
    /\ weights' = SurveyWeights
    /\ IF parse_user_form_raises(form)
       THEN /\ outcome' = "ValueError"
            /\ user' = user
            /\ recommendations' = <<>>
            /\ scored' = {}
            /\ call' = [i |-> 0, bio_mode |-> "none", form |-> form,
                        session_id |-> session_id, journey_id |-> 0]
            /\ user_journey' = user_journey
       ELSE /\ user' = parse_user_form(form)
            /\ call' = [i |-> 0, bio_mode |-> "none", form |-> form,
                        session_id |-> session_id,
                        journey_id |-> journey_id(user_journey, db)]
            /\ IF hybrid_raises(parse_user_form(form), profiles)
               THEN /\ outcome' = "TypeError"
                    /\ recommendations' = <<>>
                    /\ scored' = {}
                    /\ user_journey' = log_form_submission(user_journey, session_id, db)
               ELSE /\ outcome' = "ok"
                    /\ recommendations' =
                           compute_hybrid_recommendations(parse_user_form(form),
                                                          SurveyWeights, profiles)
                    /\ scored' = hybrid_scored(parse_user_form(form), SurveyWeights, profiles)
                    /\ user_journey' =
                           log_recommendations(
                               log_form_submission(user_journey, session_id, db),
                               profiles, session_id,
                               compute_hybrid_recommendations(parse_user_form(form),
                                                              SurveyWeights, profiles),
                               db)
    /\ algorithms' = NoDict
    /\ score' = Zero
    /\ UNCHANGED profiles

\* the session of a form that carries no session_id of its own
NoSession == "uuid4"

NextForm ==
    \/ \E c \in Candidates : LoadProfile(c, MaxFormPool)
    \/ \E c \in LegacyCandidates : LoadLegacyProfile(c, MaxFormPool)
    \/ Serve
    \/ Return
    \/ \E form \in Forms : RecommendRequest(form, NoSession, FALSE)

SpecForm == Init /\ [][NextForm]_vars


(***************************************************************************)
(* A fifth specification for the attribute similarity library: one call of *)
(* one function on a query and a candidate of the pool                     *)
(***************************************************************************)
MaxSimPool == 1

BioThreeKeywords ==
    <<"C", "a", "l", "m", ",", " ", "S", "A", "F", "E", " ", "a", "n", "d", " ",
      "r", "e", "s", "p", "e", "c", "t", "f", "u", "l", "!">>

BioHyphenated ==
    <<"f", "e", "m", "a", "l", "e", "-", "o", "n", "l", "y", " ",
      "l", "o", "w", "-", "k", "e", "y", " ",
      "i", "d", "-", "v", "e", "r", "i", "f", "i", "e", "d">>

BioQuietQuiet == <<"q", "u", "i", "e", "t", " ", "Q", "u", "i", "e", "t", " ", "t", "r", "u", "s", "t">>

YesSpaced == <<" ", "Y", "E", "S", " ">>

Blank == <<" ", " ">>

SimForms ==
    { FullForm,
      [FullForm EXCEPT !.pace_text = packed_itinerary, !.budget = <<"1">>,
                       !.gender = male, !.age = <<"4", "5">>, !.bio = BioThreeKeywords,
                       !.interests = {"Hiking", "Museums & Art", "Food"},
                       !.sleep = {"early_bird", "night_owl"}, !.smoking = YesSpaced,
                       !.dietary = Blank, !.cleanliness = <<>>],
      [FullForm EXCEPT !.pace_text = spontaneous, !.budget = <<"3">>,
                       !.gender = <<>>, !.age = <<"2", "0">>, !.bio = BioHyphenated,
                       !.interests = {}, !.sleep = {}, !.smoking = <<>>,
                       !.alcohol = yes, !.dietary = vegan],
      [FullForm EXCEPT !.bio = BioQuietQuiet, !.age = <<"3", "8">>,
                       !.interests = {"Museums & Art"}, !.sleep = {"night_owl"}],
      [s \in {"style"} |-> "hostel"] }

\* the queries parse_user_form builds, and two that hold their interests in
\* a set, as the functions of recommendation_algorithms expect them
SimUsers ==
    {parse_user_form(form) : form \in SimForms}
        \cup {ScenarioUser,
               [ScenarioUser EXCEPT !.interests = PySet({}), !.gender = Male,
                                    !.age = 40, !.bio = BioVerifiedCalm],
               [ScenarioUser EXCEPT !.bio = BioVerifiedCalm]}

\* the interest tag 'Hiking & Trekking' and a bio without an outdoors word
TaggedCandidate == [FullCandidate EXCEPT !.bio = BioThreeKeywords]

SimCandidates ==
    { ScenarioCandidate,
      FullCandidate,
      TaggedCandidate,
      BareCandidate,
      CompleteCandidate,
      [CompleteCandidate EXCEPT !.bio = BioHyphenated, !.gender = <<>>, !.age = 24,
                                !.interests = {}, !.sleep = {}, !.smoking = Blank,
                                !.alcohol = NoSpace, !.dietary = <<>>, !.cleanliness = Blank],
      [CompleteCandidate EXCEPT !.bio = BioThreeKeywords, !.gender = male, !.age = 43,
                                !.interests = {"Food", "Hiking"}, !.pace = 1,
                                !.sleep = {"night_owl"}, !.smoking = yes],
      [CompleteCandidate EXCEPT !.bio = BioQuietQuiet, !.age = 38, !.budget = 3,
                                !.interests = {"Museums & Art", "Food", "Hiking", "Nightlife"}] }

SimilarityFns ==
    {"pace", "budget", "interests", "style", "sleep", "smoking", "alcohol",
     "dietary", "cleanliness", "safety_keyword", "semantic_bio",
     "demographics_strict", "demographics_score", "interests_baseline",
     "alg4_interests"}

\* the call fn names: the function with the arguments the ranking gives it
similarity(fn, u, p) ==
    CASE fn = "pace" -> pace_similarity(u, p)
      [] fn = "budget" -> budget_similarity(u, p)
      [] fn \in {"interests", "interests_baseline"} -> interests_similarity(u, p)
      [] fn = "style" -> style_similarity(u, p)
      [] fn = "sleep" -> sleep_similarity(u, p)
      [] fn = "smoking" -> habit_match(Get(u, "smoking", <<>>), Get(p, "smoking", <<>>))
      [] fn = "alcohol" -> habit_match(Get(u, "alcohol", <<>>), Get(p, "alcohol", <<>>))
      [] fn = "dietary" ->
             categorical_similarity(Get(u, "dietary", <<>>), Get(p, "dietary", <<>>))
      [] fn = "cleanliness" ->
             categorical_similarity(Get(u, "cleanliness", <<>>), Get(p, "cleanliness", <<>>))
      [] fn = "safety_keyword" -> safety_keyword_score(u, p)
      [] fn = "semantic_bio" -> semantic_bio_score(u, p)
      [] fn = "demographics_strict" -> demographics_strict(u, p)
      [] fn = "demographics_score" -> demographics_score(u, p)
      [] fn = "alg4_interests" -> alg4_interests(u, p)

\* one call of a function of the library on the query u and profiles[i]
SimilarityCall(fn, u, i) ==
    /\ phase = "idle"
    /\ i \in DOMAIN profiles
    /\ phase' = "similarity"
    /\ user' = u
    /\ call' = [i |-> i, bio_mode |-> "none", fn |-> fn]
    /\ IF fn \in {"interests_baseline", "alg4_interests"}
             /\ interests_similarity_raises(u, profiles[i])
       THEN /\ outcome' = "AttributeError"
            /\ score' = Zero
       ELSE /\ outcome' = "ok"
            /\ score' = similarity(fn, u, profiles[i])
    /\ UNCHANGED <<profiles, weights, algorithms, recommendations, scored>>
    /\ UNCHANGED user_journey

\* hybrid_algorithm.compare_with_baseline: {**baseline_results,
\* **hybrid_results}
compare_with_baseline(u, w, pool) ==
    (HybridKey :> safety_enhanced_empirical_hybrid(u, w, pool))
        @@ baseline_algorithms(u, w, pool)

\* one call of compare_with_baseline: the baseline algorithms run first,
\* the hybrid after them, and nothing catches what either raises
CompareCall(u, w) ==
    /\ phase = "idle"
    /\ phase' = "compare"
    /\ user' = u
    /\ weights' = w
    /\ IF baseline_raises(u, profiles)
       THEN /\ outcome' = baseline_exception(u, profiles)
            /\ algorithms' = NoDict
       ELSE IF hybrid_raises(u, profiles)
       THEN /\ outcome' = "TypeError"
            /\ algorithms' = NoDict
       ELSE /\ outcome' = "ok"
            /\ algorithms' = compare_with_baseline(u, w, profiles)
    /\ recommendations' = <<>>
    /\ scored' = {}
    /\ score' = Zero
    /\ call' = NoCall
    /\ UNCHANGED profiles
    /\ UNCHANGED user_journey

NextSim ==
    \/ \E c \in SimCandidates : LoadProfile(c, MaxSimPool)
    \/ \E u \in SimUsers : CompareCall(u, SurveyWeights)
    \/ Serve
    \/ Return
    \/ \E fn \in SimilarityFns, u \in SimUsers, i \in 1..MaxSimPool : SimilarityCall(fn, u, i)

SpecSim == Init /\ [][NextSim]_vars


(***************************************************************************)
(* Properties, continued                                                   *)
(***************************************************************************)
\* a call of the function fn of the library has returned
Returned(fn) == phase = "similarity" /\ call.fn = fn /\ outcome = "ok"

\* the candidate of the last call of the library
Candidate == profiles[call.i]

\* C13: every attribute similarity function returns a value in [0,1] for a
\* query parse_user_form built and a candidate of the pool, over the paces
\* and budgets that parse_user_form and the normalization of the pool
\* produce.
C13_SimilarityInUnitInterval ==
    (phase = "similarity" /\ outcome = "ok"
        /\ call.fn \in {"pace", "budget", "interests", "style", "sleep", "smoking",
                        "alcohol", "dietary", "cleanliness", "safety_keyword",
                        "semantic_bio"})
        => RLe(Zero, score) /\ RLe(score, One)

\* the text of the pace field of the form of the last request, "" when the
\* form has none
SentPace ==
    IF "pace_text" \in DOMAIN call.form /\ call.form["pace_text"] # <<>>
    THEN call.form["pace_text"]
    ELSE IF "pace" \in DOMAIN call.form THEN call.form["pace"] ELSE <<>>

\* the text is a decimal number: digits, possibly signed
Numeric(t) ==
    \E sign \in {<<>>, <<"+">>, <<"-">>} : \E k \in 1..3 : \E ds \in [1..k -> Digits] :
        strip(t) = sign \o ds

\* C11: building the query profile never raises: a missing or non-numeric
\* pace becomes pace 2, a missing or non-numeric budget becomes budget 2,
\* and the ranking runs on the profile.
C11_FormNeverRaises ==
    phase = "request" =>
        /\ outcome = "ok"
        /\ (SentPace \notin {relaxed_itinerary, spontaneous, packed_itinerary}
              /\ ~Numeric(SentPace)) => user["pace"] = 2
        /\ ("budget" \notin DOMAIN call.form \/ ~Numeric(call.form["budget"]))
              => user["budget"] = 2
        /\ recommendations = compute_hybrid_recommendations(user, weights, profiles)

\* the expected attributes the candidate p lacks: key absent or value null
Lacking(p) == {k \in ExpectedAttributes : k \notin DOMAIN p}

\* p with the attributes it lacks, taken from CompleteCandidate
Completed(p) ==
    [k \in (DOMAIN p \ {"nulls"}) \cup ExpectedAttributes |->
        IF k \in DOMAIN p THEN p[k] ELSE CompleteCandidate[k]]

\* the component of the hybrid that reads the attribute k (none reads trust)
ComponentOf(k) ==
    CASE k \in {"gender", "age"} -> "demographics"
      [] k = "bio" -> "bio_safety"
      [] OTHER -> k

\* the components c and full differ at most in the component of an
\* attribute of lacking
DiffersOnlyIn(c, full, lacking) ==
    \A x \in DOMAIN c : c[x] # full[x] => \E k \in lacking : ComponentOf(k) = x

\* C12: a candidate that lacks one expected attribute (key absent or value
\* null) is still scored: the ranking does not raise, the candidate is among
\* those whose components are computed, and its components are those of the
\* complete candidate except the one of the lacking attribute.
C12_MissingAttributeDegrades ==
    phase \in {"hybrid", "recommend"} =>
        \A i \in DOMAIN profiles :
            Cardinality(Lacking(profiles[i])) = 1 =>
                /\ outcome = "ok"
                /\ i \in scored
                /\ DiffersOnlyIn(hybrid_components(user, profiles[i]),
                                 hybrid_components(user, Completed(profiles[i])),
                                 Lacking(profiles[i]))

\* the interest sets of the query and of the candidate of the last call
QueryInterests == Get(user, "interests", PyList({})).elems

CandidateInterests == Get(Candidate, "interests", {})

\* the largest of |A|, |B| and 1
LargerSize(A, B) ==
    CHOOSE m \in 1..(Cardinality(A) + Cardinality(B) + 1) :
        /\ m >= Cardinality(A) /\ m >= Cardinality(B)
        /\ m \in {1, Cardinality(A), Cardinality(B)}

\* v is |A \cap B| / max(|A|, |B|, 1)
IsOverlapOverLarger(v, A, B) ==
    /\ RMul(v, R(LargerSize(A, B), 1)) = R(Cardinality(A \cap B), 1)
    /\ (A = {} /\ B = {}) => v = Zero

\* C14: interests_similarity returns |A \cap B| / max(|A|, |B|, 1) for the
\* interest sets A of the query and B of the candidate, and exactly 0 when
\* both are empty or absent.
C14_InterestsOverlap ==
    (Returned("interests") \/ Returned("interests_baseline")) =>
        IsOverlapOverLarger(score, QueryInterests, CandidateInterests)

\* C14's case: the query holds more interests than the candidate, and they
\* share some
C14_Witness ==
    /\ Returned("interests")
    /\ Cardinality(QueryInterests) > Cardinality(CandidateInterests)
    /\ QueryInterests \cap CandidateInterests # {}

QueryInterestsKind == Get(user, "interests", PyList({})).kind

\* the query and the candidate of the last call with their interests and
\* their sleep sets exchanged
SwappedQuery ==
    With(With(user, "interests", [kind |-> QueryInterestsKind, elems |-> CandidateInterests]),
         "sleep", Get(Candidate, "sleep", {}))

SwappedCandidate ==
    With(With(Candidate, "interests", QueryInterests), "sleep", Get(user, "sleep", {}))

\* v is |A \cap B| / |A \cup B|, 0 when both are empty
IsJaccard(v, A, B) ==
    IF A \cup B = {}
    THEN v = Zero
    ELSE RMul(v, R(Cardinality(A \cup B), 1)) = R(Cardinality(A \cap B), 1)

\* C15: interests_similarity and sleep_similarity keep their value when
\* the sets of the query and of the candidate are exchanged; sleep_similarity
\* is the Jaccard index, 0 for two empty sets.
C15_SetOverlapSymmetric ==
    /\ (Returned("interests") \/ Returned("interests_baseline")) =>
           score = interests_similarity(SwappedQuery, SwappedCandidate)
    /\ Returned("sleep") =>
           /\ score = sleep_similarity(SwappedQuery, SwappedCandidate)
           /\ IsJaccard(score, Get(user, "sleep", {}), Get(Candidate, "sleep", {}))

\* C15's case: the candidate holds more interests than the query, and they
\* share some
C15_Witness ==
    /\ Returned("interests")
    /\ Cardinality(QueryInterests) < Cardinality(CandidateInterests)
    /\ QueryInterests \cap CandidateInterests # {}

\* the habit values of the query and the candidate that the last call read
QueryValue == Get(user, call.fn, <<>>)

CandidateValue == Get(Candidate, call.fn, <<>>)

\* nothing but whitespace
IsBlank(v) == \A i \in DOMAIN v : v[i] \in Whitespace

\* C16: after trimming and lower-casing, habit_match (smoking, alcohol) and
\* categorical_similarity (dietary, cleanliness) return 1 on equal non-blank
\* values, 0 on different ones, 0.5 when exactly one side is blank or
\* absent; on two blank sides habit_match returns 0.5 and
\* categorical_similarity 0.
C16_TriStateMatches ==
    (phase = "similarity" /\ outcome = "ok"
        /\ call.fn \in {"smoking", "alcohol", "dietary", "cleanliness"}) =>
        /\ (~IsBlank(QueryValue) /\ ~IsBlank(CandidateValue)) =>
               score = IF lower(strip(QueryValue)) = lower(strip(CandidateValue))
                       THEN One
                       ELSE Zero
        /\ (IsBlank(QueryValue) # IsBlank(CandidateValue)) => score = Half
        /\ (IsBlank(QueryValue) /\ IsBlank(CandidateValue)) =>
               score = IF call.fn \in {"smoking", "alcohol"} THEN Half ELSE Zero

\* C16's case: categorical_similarity on two blank sides, one of them
\* blanks only
C16_Witness ==
    /\ Returned("cleanliness")
    /\ IsBlank(QueryValue) /\ IsBlank(CandidateValue)
    /\ CandidateValue # <<>>

\* the word w without the punctuation around it
TrimPunct(w) ==
    IF \A i \in DOMAIN w : w[i] \notin LowerSet \cup Digits
    THEN <<>>
    ELSE SubSeq(w,
                CHOOSE a \in DOMAIN w :
                    /\ w[a] \in LowerSet \cup Digits
                    /\ \A i \in 1..(a - 1) : w[i] \notin LowerSet \cup Digits,
                CHOOSE b \in DOMAIN w :
                    /\ w[b] \in LowerSet \cup Digits
                    /\ \A i \in (b + 1)..Len(w) : w[i] \notin LowerSet \cup Digits)

\* the whitespace-separated words of the two bios, lower-cased, without the
\* punctuation around them
BioWords ==
    {TrimPunct(w) :
        w \in ToSet(split(lower(Get(user, "bio", <<>>) \o <<" ">> \o Get(Candidate, "bio", <<>>))))}

\* C17: safety_keyword_score returns min(1, h / 3), h the number of distinct
\* keywords of the safety vocabulary written as whitespace-separated words
\* in the bio of the query or of the candidate, for each of the 12 keywords.
C17_SafetyKeywordHits ==
    Returned("safety_keyword") =>
        score = RMin(One, R(Cardinality(BioWords \cap SAFETY_KEYWORDS), 3))

\* the maximal runs without whitespace of the text t
RunsOf(t) ==
    {SubSeq(t, r[1], r[2]) :
        r \in {q \in (1..Len(t)) \X (1..Len(t)) :
                  /\ q[1] <= q[2]
                  /\ \A i \in q[1]..q[2] : t[i] \notin Whitespace
                  /\ q[1] = 1 \/ t[q[1] - 1] \in Whitespace
                  /\ q[2] = Len(t) \/ t[q[2] + 1] \in Whitespace}}

\* the distinct tokens of a bio
TokensOf(bio) == RunsOf(replace_punct(lower(bio)))

\* v is |TQ \cap TC| / |TQ|, 0 when TQ is empty
IsSharedOverQuery(v, TQ, TC) ==
    IF TQ = {}
    THEN v = Zero
    ELSE RMul(v, R(Cardinality(TQ), 1)) = R(Cardinality(TQ \cap TC), 1)

\* C18: semantic_bio_score returns the number of distinct tokens the two bios
\* share, divided by the number of distinct tokens of the query's bio alone
\* (0 when it has none).
C18_SemanticBioOverQuery ==
    Returned("semantic_bio") =>
        IsSharedOverQuery(score, TokensOf(Get(user, "bio", <<>>)),
                          TokensOf(Get(Candidate, "bio", <<>>)))

\* C18's case, the asymmetry: exchanging the bios of the query and of the
\* candidate changes the value
C18_Witness ==
    /\ Returned("semantic_bio")
    /\ score # semantic_bio_score(With(user, "bio", Get(Candidate, "bio", <<>>)),
                                  With(Candidate, "bio", Get(user, "bio", <<>>)))

\* equal but for the case of the letters
SameIgnoringCase(a, b) ==
    /\ Len(a) = Len(b)
    /\ \A i \in DOMAIN a : LowerChar(a[i]) = LowerChar(b[i])

\* both genders are present and equal ignoring case
GenderMatch(u, c) ==
    /\ "gender" \in DOMAIN u
    /\ "gender" \in DOMAIN c
    /\ SameIgnoringCase(u["gender"], c["gender"])

\* both ages are present and differ by lo..hi years
AgeDiffIn(u, c, lo, hi) ==
    /\ "age" \in DOMAIN u
    /\ "age" \in DOMAIN c
    /\ \E d \in lo..hi : u["age"] - c["age"] = d \/ c["age"] - u["age"] = d

StrictTier(u, c) ==
    IF AgeDiffIn(u, c, 0, 3) THEN One
    ELSE IF AgeDiffIn(u, c, 4, 7) THEN R(6, 10)
    ELSE IF AgeDiffIn(u, c, 8, 12) THEN R(3, 10)
    ELSE Zero

\* 1 for TRUE, 0 for FALSE
Indicator(b) == IF b THEN One ELSE Zero

\* C19: demographics_strict returns 0.7 * genderMatch + 0.3 * ageTier (tiers
\* 1.0, 0.6, 0.3, 0.0 for an age difference up to 3, 7, 12, above or an
\* absent age); the result is in [0,1], and a same-gender candidate scores
\* at least as high as any different-gender candidate.
C19_StrictDemographics ==
    Returned("demographics_strict") =>
        /\ score = RAdd(RMul(R(7, 10), Indicator(GenderMatch(user, Candidate))),
                        RMul(R(3, 10), StrictTier(user, Candidate)))
        /\ RLe(Zero, score) /\ RLe(score, One)
        /\ GenderMatch(user, Candidate) =>
               \A c \in SimCandidates :
                   ~GenderMatch(user, c) => RLe(demographics_strict(user, c), score)

\* C19's case: a same-gender candidate at a distant age, beside a
\* different-gender candidate at a close one
C19_Witness ==
    /\ Returned("demographics_strict")
    /\ GenderMatch(user, Candidate)
    /\ AgeDiffIn(user, Candidate, 8, 12)
    /\ \E c \in SimCandidates : ~GenderMatch(user, c) /\ AgeDiffIn(user, c, 0, 7)

LenientTier(u, c) ==
    IF AgeDiffIn(u, c, 0, 5) THEN One
    ELSE IF AgeDiffIn(u, c, 6, 10) THEN Half
    ELSE Zero

\* C20: demographics_score returns (g + a) / 2, g 1 for genders present and
\* equal ignoring case, a 1.0, 0.5 or 0.0 for an age difference up to 5, up
\* to 10, above or an absent age: one of 0, 0.25, 0.5, 0.75, 1.
C20_LenientDemographics ==
    Returned("demographics_score") =>
        /\ score = RDiv(RAdd(Indicator(GenderMatch(user, Candidate)),
                             LenientTier(user, Candidate)), R(2, 1))
        /\ score \in {Zero, R(1, 4), Half, R(3, 4), One}

\* C20's case: the genders match and the ages differ by 6 to 10 years
C20_Witness ==
    /\ Returned("demographics_score")
    /\ GenderMatch(user, Candidate)
    /\ AgeDiffIn(user, Candidate, 6, 10)
    /\ score = R(3, 4)



(***************************************************************************)
(* Properties of the ranking calls, continued                              *)
(***************************************************************************)
\* the lists the last call returned
ReturnedLists == {algorithms[k] : k \in DOMAIN algorithms} \cup {recommendations}

\* every tuple of every returned list refers to a dict of the pool, and no
\* two tuples of a list to the same one
TriplesReferToPool ==
    \A l \in ReturnedLists :
        /\ \A j \in DOMAIN l : l[j].p \in DOMAIN profiles
        /\ \A j, k \in DOMAIN l : j # k => l[j].p # l[k].p

\* C21: a ranking call leaves the candidate pool as it was (the same
\* candidates in the same order with the same attribute values: the pool
\* changes only while it is loaded at startup), and each triple a call
\* returns refers to a candidate of that pool, each candidate at most once.
C21_PoolReadOnly ==
    [][ /\ phase # "startup" => profiles' = profiles
        /\ TriplesReferToPool' ]_vars

\* a hybrid call on a pool of nine returned eight triples
C21_Witness ==
    /\ phase = "hybrid"
    /\ outcome = "ok"
    /\ Len(profiles) = 9
    /\ Len(algorithms[HybridKey]) = 8

\* the smaller of two numbers
Min(a, b) == IF a < b THEN a ELSE b

\* no triple of all that is not in kept has a finalScore above one of kept
NoneBetterLeftOut(kept, all) ==
    \A k \in DOMAIN all : \A j \in DOMAIN kept :
        all[k].p \notin Positions(kept) => ~RLt(kept[j].sc, all[k].sc)

\* kept is the first RECOMMEND_TOP_K triples of the whole sorted list
IsTopOfSorted(kept, sorted) == kept = Take(sorted, RECOMMEND_TOP_K)

\* C22: compute_hybrid_recommendations returns min(6, n) triples, n the
\* number of candidates whose clamped trust is at least 0.7; no candidate
\* that passes the gate and is left out has a finalScore strictly greater
\* than a returned one; and the result (the first 6 of the hybrid's top 8)
\* is the first 6 of the whole sorted list.
C22_RecommendsTheBest ==
    (phase = "recommend" /\ outcome = "ok") =>
        /\ Len(recommendations) = Min(RECOMMEND_TOP_K, NumPassing)
        /\ NoneBetterLeftOut(recommendations, HybridLoop(user, weights, profiles, 1))
        /\ IsTopOfSorted(recommendations, sorted_desc(HybridLoop(user, weights, profiles, 1)))

\* some triple of all is left out of kept with a finalScore strictly below
\* the last of kept, and its candidate has a trust of exactly 0.7
LeftOutAtGate(kept, all) ==
    \E k \in DOMAIN all :
        /\ all[k].p \notin Positions(kept)
        /\ RLt(all[k].sc, kept[Len(kept)].sc)
        /\ profiles[all[k].p].trust = TRUST_GATE

\* C22's case: more than six candidates pass the gate, six are returned,
\* not in pool order, and a candidate at exactly 0.7 is left out for its
\* lower score
C22_Witness ==
    /\ phase = "recommend"
    /\ outcome = "ok"
    /\ NumPassing > RECOMMEND_TOP_K
    /\ Len(recommendations) = RECOMMEND_TOP_K
    /\ \E j \in 1..(RECOMMEND_TOP_K - 1) : recommendations[j].p > recommendations[j + 1].p
    /\ LeftOutAtGate(recommendations, HybridLoop(user, weights, profiles, 1))

\* trust values (hundredths) below, at and above the range of the gate
TrustValues == {0, 100}

\* the pools that differ from pool only in the candidates' trust: each
\* candidate without the key or with any of the TrustValues
TrustVariants(pool) ==
    { [i \in DOMAIN pool |->
          IF c[i].absent
          THEN Without(pool[i], "trust")
          ELSE With(pool[i], "trust", c[i].t)] :
      c \in [DOMAIN pool -> [absent : BOOLEAN, t : TrustValues]] }

\* every triple of the list has a finalScore equal to its rawScore
FinalIsRaw(alg) == \A j \in DOMAIN alg : alg[j].sc = alg[j].S

\* C23: under the ignore-trust policy ('Logistics+Trust') finalScore equals
\* rawScore for every candidate, every candidate of the pool is scored
\* whatever its trust, and the returned list is the one every pool gives
\* that differs from this one only in the candidates' trust.
C23_IgnoreTrustPolicy ==
    (phase = "baseline" /\ outcome = "ok") =>
        /\ FinalIsRaw(Alg2Loop(user, profiles, 1))
        /\ Len(Alg2Loop(user, profiles, 1)) = Len(profiles)
        /\ FinalIsRaw(algorithms["Logistics+Trust"])
        /\ Len(algorithms["Logistics+Trust"]) = Min(1, Len(profiles))
        /\ \A q \in TrustVariants(profiles) :
               Take(sorted_desc(Alg2Loop(user, q, 1)), 1) = algorithms["Logistics+Trust"]

\* C23's case: the candidate 'Logistics+Trust' returns has a trust below
\* the gate and a nonzero score, and 'Empirical', which multiplies by
\* trust, returns another candidate of the pool
C23_Witness ==
    /\ phase = "baseline"
    /\ outcome = "ok"
    /\ Len(profiles) = 2
    /\ ClampedTrustBelowGate(profiles[algorithms["Logistics+Trust"][1].p])
    /\ RLt(Zero, algorithms["Logistics+Trust"][1].sc)
    /\ algorithms["Empirical"][1].p # algorithms["Logistics+Trust"][1].p

\* the bio holds a word of the outdoors vocabulary: a whitespace-separated
\* word, lower-cased, without the punctuation around it
HasOutdoorsWord(bio) ==
    {TrimPunct(w) : w \in ToSet(split(lower(bio)))} \cap OUTDOOR_KEYWORDS # {}

\* the plain value raised by 0.35 and capped at 1.0
Boosted(plain) == IF RLe(R(65, 100), plain) THEN One ELSE RAdd(plain, R(35, 100))

\* the candidate carries the interest tag the fourth loop looks for
HasHikingTag(p) == "Hiking & Trekking" \in Get(p, "interests", {})

\* C24 as stated: in 'SemanticBio' the interests component is the plain
\* interests_similarity value raised by 0.35, capped at 1.0, exactly when
\* both the query bio and the candidate bio contain an outdoors keyword, and
\* the plain value for every other candidate.
C24_BoostOnBothBios ==
    Returned("alg4_interests") =>
        score = IF /\ HasOutdoorsWord(Get(user, "bio", <<>>))
                   /\ HasOutdoorsWord(Get(Candidate, "bio", <<>>))
                THEN Boosted(interests_similarity(user, Candidate))
                ELSE interests_similarity(user, Candidate)

\* C24 amended: the component is raised by 0.35, capped at 1.0, exactly when
\* the query bio contains an outdoors keyword and the candidate's bio
\* contains one or the candidate's interests hold 'Hiking & Trekking'; it
\* is the plain value otherwise; and it is computed exactly when the plain
\* interests_similarity of recommendation_algorithms returns (that one
\* raises AttributeError for a query whose interests are a list, unless
\* both sides are empty).
C24_BoostOnBioOrTag ==
    (phase = "similarity" /\ call.fn = "alg4_interests") =>
        /\ outcome = "AttributeError" <=>
               /\ QueryInterestsKind = "list"
               /\ ~(QueryInterests = {} /\ CandidateInterests = {})
        /\ outcome = "ok" =>
               score = IF /\ HasOutdoorsWord(Get(user, "bio", <<>>))
                          /\ \/ HasOutdoorsWord(Get(Candidate, "bio", <<>>))
                             \/ HasHikingTag(Candidate)
                       THEN Boosted(interests_similarity(user, Candidate))
                       ELSE interests_similarity(user, Candidate)

\* C24's case: the query bio has an outdoors word, the candidate's bio has
\* none but its interests hold the tag, and the component is above the plain
\* value
C24_Witness ==
    /\ Returned("alg4_interests")
    /\ HasOutdoorsWord(Get(user, "bio", <<>>))
    /\ ~HasOutdoorsWord(Get(Candidate, "bio", <<>>))
    /\ HasHikingTag(Candidate)
    /\ score = RAdd(interests_similarity(user, Candidate), R(35, 100))

\* the two candidates have the same value for every attribute but the bio
\* (and the id), the trust included
SameButBio(p, q) ==
    /\ DOMAIN p \ {"bio", "id"} = DOMAIN q \ {"bio", "id"}
    /\ \A k \in DOMAIN p \ {"bio", "id"} : p[k] = q[k]

\* the candidate at position i has a strictly higher finalScore in alg than
\* the one at position j whenever the two differ in the bio only and the
\* bio of i shares more of the query's tokens
MoreOverlapScoresHigher(alg, i, j) ==
    (/\ SameButBio(profiles[i], profiles[j])
     /\ RLt(semantic_bio_score(user, profiles[j]), semantic_bio_score(user, profiles[i])))
        => RLt(alg[j].sc, alg[i].sc)

\* C25: in 'Empirical' (base_score with bio_mode 'tie'), of two candidates
\* with equal trust and equal values on every other component, the one
\* whose bio shares more tokens with the query bio has the strictly higher
\* score.
C25_BioBreaksTies ==
    (phase = "baseline" /\ outcome = "ok") =>
        \A i, j \in DOMAIN profiles :
            MoreOverlapScoresHigher(Alg1Loop(user, W1(weights), profiles, 1), i, j)

\* the two groups of the hybrid's weight preset
SafetyFirstKeys ==
    {"demographics", "bio_safety", "sleep", "style", "smoking", "alcohol",
     "dietary", "cleanliness"}

EmpiricalKeys == {"budget", "pace", "interests"}

\* the aggregate of a group: the weighted mean of the components c over
\* the keys of the group
GroupAggregate(c, keys) ==
    RDiv(WeightedOver(W_hybrid, c, keys), TotalOver(W_hybrid, keys))

\* the rawScore S is 0.6 times the safety aggregate plus 0.4 times the
\* empirical aggregate of the components c
IsSixtyForty(S, c) ==
    S = RAdd(RMul(R(6, 10), GroupAggregate(c, SafetyFirstKeys)),
             RMul(R(4, 10), GroupAggregate(c, EmpiricalKeys)))

\* C26: in the hybrid's weight preset the safety-first components carry 60%
\* of the total weight and the empirical components 40%, so that the
\* rawScore of a returned candidate is 0.6 times its safety aggregate plus
\* 0.4 times its empirical aggregate.
C26_SixtyFortySplit ==
    (phase = "hybrid" /\ outcome = "ok") =>
        /\ RDiv(TotalOver(W_hybrid, SafetyFirstKeys), sum_values(W_hybrid)) = R(6, 10)
        /\ RDiv(TotalOver(W_hybrid, EmpiricalKeys), sum_values(W_hybrid)) = R(4, 10)
        /\ \A j \in DOMAIN HybridResult :
               IsSixtyForty(HybridResult[j].S,
                            hybrid_components(user, profiles[HybridResult[j].p]))


(***************************************************************************)
(* scripts/unique_first_names.py: every profile of simulated_profiles.json *)
(* gets a generated first name.  Names are text, as bios are.              *)
(***************************************************************************)
MALE_BASE ==
    << <<"L", "i", "a", "m">>,
       <<"N", "o", "a", "h">>,
       <<"O", "l", "i", "v", "e", "r">>,
       <<"E", "l", "i", "j", "a", "h">>,
       <<"J", "a", "m", "e", "s">>,
       <<"W", "i", "l", "l", "i", "a", "m">>,
       <<"B", "e", "n", "j", "a", "m", "i", "n">>,
       <<"L", "u", "c", "a", "s">>,
       <<"H", "e", "n", "r", "y">>,
       <<"A", "l", "e", "x", "a", "n", "d", "e", "r">>,
       <<"M", "a", "s", "o", "n">>,
       <<"M", "i", "c", "h", "a", "e", "l">>,
       <<"E", "t", "h", "a", "n">>,
       <<"D", "a", "n", "i", "e", "l">>,
       <<"J", "a", "c", "o", "b">>,
       <<"L", "o", "g", "a", "n">>,
       <<"J", "a", "c", "k", "s", "o", "n">>,
       <<"L", "e", "v", "i">>,
       <<"S", "e", "b", "a", "s", "t", "i", "a", "n">>,
       <<"M", "a", "t", "e", "o">>,
       <<"J", "a", "c", "k">>,
       <<"O", "w", "e", "n">>,
       <<"S", "a", "m", "u", "e", "l">>,
       <<"M", "a", "t", "t", "h", "e", "w">>,
       <<"J", "o", "s", "e", "p", "h">>,
       <<"D", "a", "v", "i", "d">>,
       <<"W", "y", "a", "t", "t">>,
       <<"C", "a", "r", "t", "e", "r">>,
       <<"J", "a", "y", "d", "e", "n">>,
       <<"L", "u", "k", "e">> >>

FEMALE_BASE ==
    << <<"O", "l", "i", "v", "i", "a">>,
       <<"E", "m", "m", "a">>,
       <<"A", "v", "a">>,
       <<"C", "h", "a", "r", "l", "o", "t", "t", "e">>,
       <<"S", "o", "p", "h", "i", "a">>,
       <<"A", "m", "e", "l", "i", "a">>,
       <<"I", "s", "a", "b", "e", "l", "l", "a">>,
       <<"M", "i", "a">>,
       <<"E", "v", "e", "l", "y", "n">>,
       <<"H", "a", "r", "p", "e", "r">>,
       <<"C", "a", "m", "i", "l", "a">>,
       <<"G", "i", "a", "n", "n", "a">>,
       <<"A", "b", "i", "g", "a", "i", "l">>,
       <<"L", "u", "n", "a">>,
       <<"E", "l", "l", "a">>,
       <<"E", "l", "i", "z", "a", "b", "e", "t", "h">>,
       <<"S", "o", "f", "i", "a">>,
       <<"E", "m", "i", "l", "y">>,
       <<"A", "v", "e", "r", "y">>,
       <<"M", "i", "l", "a">>,
       <<"S", "c", "a", "r", "l", "e", "t", "t">>,
       <<"E", "l", "e", "a", "n", "o", "r">>,
       <<"H", "a", "n", "n", "a", "h">>,
       <<"G", "r", "a", "c", "e">>,
       <<"Z", "o", "e", "y">>,
       <<"P", "e", "n", "e", "l", "o", "p", "e">>,
       <<"N", "o", "r", "a">>,
       <<"R", "i", "l", "e", "y">>,
       <<"V", "i", "c", "t", "o", "r", "i", "a">>,
       <<"L", "i", "l", "y">> >>

MALE_MOD ==
    << <<"J", "a", "m", "e", "s">>,
       <<"L", "e", "e">>,
       <<"J", "o", "h", "n">>,
       <<"R", "a", "y">>,
       <<"K", "a", "i">>,
       <<"J", "a", "x">>,
       <<"C", "o", "l", "e">>,
       <<"Z", "a", "n", "e">>,
       <<"R", "e", "i", "d">>,
       <<"G", "a", "g", "e">>,
       <<"H", "a", "l", "e">>,
       <<"R", "h", "y", "s">>,
       <<"J", "u", "d", "e">>,
       <<"K", "n", "o", "x">>,
       <<"W", "a", "d", "e">>,
       <<"S", "h", "a", "n", "e">>,
       <<"T", "r", "o", "y">>,
       <<"B", "e", "a", "u">>,
       <<"C", "r", "u", "z">>,
       <<"D", "a", "l", "e">>,
       <<"F", "i", "n", "n">>,
       <<"G", "r", "a", "n", "t">>,
       <<"H", "u", "g", "h">>,
       <<"P", "a", "u", "l">>,
       <<"R", "o", "y">> >>

FEMALE_MOD ==
    << <<"R", "o", "s", "e">>,
       <<"M", "a", "e">>,
       <<"A", "n", "n", "e">>,
       <<"L", "y", "n", "n">>,
       <<"G", "r", "a", "c", "e">>,
       <<"H", "o", "p", "e">>,
       <<"S", "k", "y", "e">>,
       <<"J", "a", "d", "e">>,
       <<"B", "e", "l", "l", "e">>,
       <<"E", "v", "e">>,
       <<"F", "a", "i", "t", "h">>,
       <<"J", "u", "n", "e">>,
       <<"K", "a", "y">>,
       <<"L", "e", "i", "g", "h">>,
       <<"N", "o", "o", "r">>,
       <<"P", "e", "a", "r", "l">>,
       <<"R", "a", "e">>,
       <<"S", "a", "g", "e">>,
       <<"T", "e", "s", "s">>,
       <<"W", "r", "e", "n">>,
       <<"Z", "o", "e">>,
       <<"A", "m", "y">>,
       <<"G", "a", "i", "l">>,
       <<"I", "r", "i", "s">>,
       <<"J", "o", "y">> >>

\* f"{base}-{mod}" with base = base_list[idx % len(base_list)] and
\* mod = mod_list[(idx // len(base_list)) % len(mod_list)]
gen_variant(base_list, mod_list, idx) ==
    base_list[(idx % Len(base_list)) + 1]
        \o <<"-">>
        \o mod_list[((idx \div Len(base_list)) % Len(mod_list)) + 1]

\* ' '.join(parts)
RECURSIVE Join(_)
Join(parts) ==
    IF parts = <<>> THEN <<>>
    ELSE IF Len(parts) = 1 THEN Head(parts)
    ELSE Head(parts) \o <<" ">> \o Join(Tail(parts))

\* last = ' '.join(parts[1:]) if len(parts) > 1 else '', with
\* parts = name.strip().split()
last_names(name) ==
    IF Len(split(strip(name))) > 1 THEN Join(Tail(split(strip(name)))) ELSE <<>>

\* (fn + (' ' + last if last else '')).strip()
renamed(fn, last) == strip(fn \o (IF last # <<>> THEN <<" ">> \o last ELSE <<>>))

\* g == 'male' with g = (p.get('gender') or '').lower(); any other gender
\* takes the female lists
names_is_male(p) == lower(Get(p, "gender", <<>>)) = male

\* the counter of the lists p draws from, and the variant at that counter
names_idx(p, c) == IF names_is_male(p) THEN c.male_idx ELSE c.female_idx

names_variant(p, idx) ==
    IF names_is_male(p)
    THEN gen_variant(MALE_BASE, MALE_MOD, idx)
    ELSE gen_variant(FEMALE_BASE, FEMALE_MOD, idx)

\* male_idx += 1 or female_idx += 1
names_counted(p, c) ==
    IF names_is_male(p)
    THEN [c EXCEPT !.male_idx = @ + 1]
    ELSE [c EXCEPT !.female_idx = @ + 1]

(***************************************************************************)
(* A sixth specification, for the script: profiles is data, the list the   *)
(* script read and renames in place; call holds the position of the        *)
(* profile at work, the two counters, the set used and the content of the  *)
(* file, which is rewritten once the loop is over                          *)
(***************************************************************************)
MaxNamesPool == 2

\* the counters are unbounded in the code; a search for a variant is
\* followed until the counter has gone twice through the 750 variants of a
\* gender
MaxTries == 1500

\* one profile more of a gender than the gender has variants
CrowdSize == Len(MALE_BASE) * Len(MALE_MOD) + 1

BobStone == <<"B", "o", "b", " ", "S", "t", "o", "n", "e">>

AnaMariaLopez ==
    <<" ", "A", "n", "a", " ", " ", "M", "a", "r", "i", "a", " ", "L", "o", "p", "e", "z">>

NameProfiles ==
    { [name |-> BobStone, gender |-> male],
      [name |-> BobStone, gender |-> Male],
      [name |-> AnaMariaLopez, gender |-> Female],
      [name |-> <<>>, gender |-> <<"o", "t", "h", "e", "r">>],
      [gender |-> female],
      WithNone([gender |-> male], "name") }

\* a list of profiles with their ids
Numbered(pool) == [i \in DOMAIN pool |-> With(pool[i], "id", i)]

NamePools ==
    { Numbered(pool) : pool \in UNION {[1..n -> NameProfiles] : n \in 0..MaxNamesPool} }
        \cup { Numbered([i \in 1..CrowdSize |-> [name |-> BobStone, gender |-> male]]) }

\* data = json.loads(JS.read_text()), used = set(), male_idx = female_idx = 0
InitNames ==
    /\ profiles \in NamePools
    /\ phase = "names"
    /\ user = ScenarioUser
    /\ weights = SurveyWeights
    /\ outcome = "none"
    /\ algorithms = NoDict
    /\ recommendations = <<>>
    /\ scored = {}
    /\ score = Zero
    /\ call = [i |-> 1, bio_mode |-> "none", male_idx |-> 0, female_idx |-> 0,
               used |-> {}, file |-> profiles]
    /\ user_journey = <<>>

\* one turn of a 'while True' loop for the profile at position call.i, with
\* what precedes it in the body of the for loop (None.strip() raises) and,
\* when the variant is unused, what follows it (p['name'] = ...)
TryVariant ==
    /\ phase = "names"
    /\ call.i \in DOMAIN profiles
    /\ IF IsNone(profiles[call.i], "name")
       THEN /\ phase' = "names_failed"
            /\ outcome' = "AttributeError"
            /\ UNCHANGED <<profiles, call>>
       ELSE /\ names_idx(profiles[call.i], call) < MaxTries
            /\ IF names_variant(profiles[call.i], names_idx(profiles[call.i], call)) \in call.used
               THEN /\ call' = names_counted(profiles[call.i], call)
                    /\ UNCHANGED profiles
               ELSE /\ call' = [names_counted(profiles[call.i], call) EXCEPT
                                   !.i = @ + 1,
                                   !.used = @ \cup {names_variant(profiles[call.i],
                                                                  names_idx(profiles[call.i], call))}]
                    /\ profiles' = [profiles EXCEPT ![call.i] =
                           With(@, "name",
                                renamed(names_variant(profiles[call.i],
                                                      names_idx(profiles[call.i], call)),
                                        last_names(Get(profiles[call.i], "name", <<>>))))]
            /\ UNCHANGED <<phase, outcome>>
    /\ UNCHANGED <<user, weights, algorithms, recommendations, scored, score>>
    /\ UNCHANGED user_journey

\* JS.write_text(json.dumps(data, ...)) after the loop
WriteNames ==
    /\ phase = "names"
    /\ call.i = Len(profiles) + 1
    /\ phase' = "names_written"
    /\ outcome' = "ok"
    /\ call' = [call EXCEPT !.file = profiles]
    /\ UNCHANGED <<profiles, user, weights, algorithms, recommendations, scored, score>>
    /\ UNCHANGED user_journey

NextNames ==
    \/ TryVariant
    \/ WriteNames

SpecNames == InitNames /\ [][NextNames]_vars

\* the first token of a name, <<>> when it has none
FirstName(name) == IF split(name) = <<>> THEN <<>> ELSE Head(split(name))

\* the tokens behind the first
LastNames(name) == IF split(name) = <<>> THEN <<>> ELSE Tail(split(name))

\* the hyphenated variants of a pair of lists
Variants(base_list, mod_list) ==
    {base_list[b] \o <<"-">> \o mod_list[m] : b \in DOMAIN base_list, m \in DOMAIN mod_list}

\* every profile of data has a first name no other profile has, of the
\* lists of its gender, and the last names it has in the file
UniquelyRenamed(data, file) ==
    /\ \A i, j \in DOMAIN data :
           i # j => FirstName(data[i].name) # FirstName(data[j].name)
    /\ \A i \in DOMAIN data :
           /\ lower(Get(data[i], "gender", <<>>)) = male =>
                  FirstName(data[i].name) \in Variants(MALE_BASE, MALE_MOD)
           /\ lower(Get(data[i], "gender", <<>>)) = female =>
                  FirstName(data[i].name) \in Variants(FEMALE_BASE, FEMALE_MOD)
           /\ LastNames(data[i].name) = LastNames(Get(file[i], "name", <<>>))

\* the variants the search for the profile p goes through, again and again
VariantsFor(p) ==
    IF names_is_male(p)
    THEN Variants(MALE_BASE, MALE_MOD)
    ELSE Variants(FEMALE_BASE, FEMALE_MOD)

\* C27: for every profile pool the unique-first-names script terminates
\* (no statement raises, and each search for an unused variant has one to
\* find: the counter goes through the same variants round after round), and
\* when its loop is over every profile has a first name that no other
\* profile has, from the name lists of its gender, in front of the last
\* names it had.
C27_UniqueNamesTerminates ==
    /\ phase # "names_failed"
    /\ (phase = "names" /\ call.i \in DOMAIN profiles) =>
           VariantsFor(profiles[call.i]) \ call.used # {}
    /\ (phase = "names" /\ call.i = Len(profiles) + 1) =>
           UniquelyRenamed(profiles, call.file)

\* the three pace labels of the form
PaceLabels == {relaxed_itinerary, spontaneous, packed_itinerary}

\* the candidate at position i of the pool chose the label txt: it is what
\* the normalization makes of the legacy profile with that label
ChoseLabel(i, txt) ==
    profiles[i] = With(normalize_legacy_fields(LegacyCandidate(txt)), "id", i)

\* C28: for each of 'relaxed_itinerary', 'spontaneous' and
\* 'packed_itinerary', the pace parse_user_form gives a query that sent the
\* label equals the pace normalize_legacy_fields wrote into a candidate
\* with the same label, and the pace similarity of the two is 1.0.
C28_SameLabelSamePace ==
    (phase = "request" /\ outcome = "ok" /\ SentPace \in PaceLabels) =>
        \A i \in DOMAIN profiles :
            ChoseLabel(i, SentPace) =>
                /\ user.pace = profiles[i].pace
                /\ pace_similarity(user, profiles[i]) = One

\* the keys of the dict compare_with_baseline returns
FiveAlgorithms ==
    {"Empirical", "Logistics+Trust", "Safety+Social", "SemanticBio", HybridKey}

\* C29: the interests_similarity of recommendation_algorithms returns,
\* without raising, the value the one of hybrid_algorithm returns for the
\* same query (its interests a list or a set) and candidate; and
\* compare_with_baseline returns the results of all five algorithms.
C29_InterestsCopiesAgree ==
    /\ (phase = "similarity" /\ call.fn = "interests_baseline") =>
           /\ outcome = "ok"
           /\ score = interests_similarity(user, Candidate)
    /\ phase = "compare" =>
           /\ outcome = "ok"
           /\ DOMAIN algorithms = FiveAlgorithms


(***************************************************************************)
(* app.py: the routes /recommend and /submit_matches with the table        *)
(* user_journey of the database                                            *)
(***************************************************************************)
\* the position of the first profile of the pool with the id (0: none)
find_profile(pool, profile_id) ==
    IF \E j \in DOMAIN pool : pool[j].id = profile_id
    THEN CHOOSE j \in DOMAIN pool :
             /\ pool[j].id = profile_id
             /\ \A k \in DOMAIN pool : pool[k].id = profile_id => j <= k
    ELSE 0

\* submit_matches' loop over the posted selections 'id::final::compat::trust':
\* one with fewer than four parts or with the id of no profile is skipped
\* (the scores a selection carries are written to columns not followed here)
selected_profiles(pool, selections) ==
    LET Found(x) == x.parts >= 4 /\ find_profile(pool, x.profile_id) # 0
        found == SelectSeq(selections, Found)
    IN  [j \in DOMAIN found |->
             [p |-> find_profile(pool, found[j].profile_id), sc |-> Zero, S |-> Zero]]

\* app.submit_matches: the check of the number of selections,
\* parse_user_form, the loop over the selections, log_selections and the
\* console log, which reads profile['name']
SubmitMatches(form, selections, session_id, db) ==
    /\ phase = "idle"
    /\ phase' = "submit"
    /\ call' = [i |-> 0, bio_mode |-> "none", form |-> form,
                session_id |-> session_id, journey_id |-> 0,
                selections |-> selections]
    /\ IF Len(selections) < 1 \/ Len(selections) > 6
       THEN /\ outcome' = "400"
            /\ UNCHANGED <<user, user_journey>>
       ELSE IF parse_user_form_raises(form)
       THEN /\ outcome' = "ValueError"
            /\ UNCHANGED <<user, user_journey>>
       ELSE /\ user' = parse_user_form(form)
            /\ user_journey' =
                   log_selections(user_journey, profiles, session_id,
                                  selected_profiles(profiles, selections), db)
            /\ outcome' =
                   IF \E j \in DOMAIN selected_profiles(profiles, selections) :
                          Missing(profiles[selected_profiles(profiles, selections)[j].p], "name")
                   THEN "KeyError"
                   ELSE "ok"
    /\ UNCHANGED <<profiles, weights, algorithms, recommendations, scored, score>>

\* A seventh specification: requests to both routes in any order
MaxJourneyPool == 2

NamedCandidate == With(ScenarioCandidate, "name", BobStone)

NamedGatedCandidate == With(GatedCandidate, "name", AnaMariaLopez)

\* candidates that pass the trust gate with and without a name and one
\* that does not pass it
JourneyCandidates == {NamedCandidate, NamedGatedCandidate, ScenarioCandidate}

JourneyForms == {FullForm, [FullForm EXCEPT !.budget = <<"l", "o", "w">>]}

SessionIds == {"session-1", NoSession}

Selection(profile_id) == [parts |-> 4, profile_id |-> profile_id]

\* no selection, one of a profile of the pool, of no profile or cut short,
\* two, and seven
SelectionLists ==
    { <<>>,
      <<Selection(1)>>, <<Selection(2)>>, <<Selection(MaxJourneyPool + 1)>>,
      <<[parts |-> 2, profile_id |-> 1]>>,
      <<Selection(1), Selection(2)>>,
      [j \in 1..7 |-> Selection(1)] }

NextJourney ==
    \/ \E c \in JourneyCandidates : LoadProfile(c, MaxJourneyPool)
    \/ Serve
    \/ Return
    \/ \E form \in JourneyForms, session_id \in SessionIds, db \in BOOLEAN :
           RecommendRequest(form, session_id, db)
    \/ \E form \in JourneyForms, selections \in SelectionLists,
          session_id \in SessionIds, db \in BOOLEAN :
           SubmitMatches(form, selections, session_id, db)

SpecJourney == Init /\ [][NextJourney]_vars

\* C30: with the database reachable, a /recommend request whose form
\* submission was logged has the recommendation step on its journey row:
\* recommendations_generated_at is set and total_suggested_count is the
\* number of recommendations rendered, an empty ranking included; and a row
\* with selections recorded has its recommendations recorded
C30_JourneyStepsRecorded ==
    /\ (phase = "request" /\ outcome = "ok" /\ call.journey_id # 0) =>
           /\ user_journey[call.journey_id].recommendations_generated_at
           /\ user_journey[call.journey_id].total_suggested_count = Len(recommendations)
    /\ \A j \in DOMAIN user_journey :
           user_journey[j].selections_made_at =>
               user_journey[j].recommendations_generated_at

=============================================================================
